---------------------------- MODULE Spec2Model ----------------------------
(***************************************************************************)
(* A model of the transit-time replay pipeline.                            *)
(*                                                                         *)
(*   scraper/batch_process.py          BatchProcessor: paged, checkpointed *)
(*                                     replay of realtime_raw              *)
(*   scraper/mta_realtime_processor.py MTARealtimeProcessor.process_row    *)
(*   scraper/realtime_writer.py        RealtimeWriter.write_message        *)
(*   scraper/mta_realtime_parser.py    MTARealtimeParser.fix_feed_mesesage *)
(*                                                                         *)
(* Datetimes are natural numbers.  A realtime_raw row is identified by its *)
(* ordering columns (update_time, feed_id): update_time is the capture     *)
(* job's clock reading at the fetch, one reading per fetch of a feed.      *)
(***************************************************************************)
EXTENDS Integers, Sequences, FiniteSets, TLC

\* Optional[T]: None is the empty sequence, a present value x is <<x>>
None == <<>>

Some(x) == <<x>>

Get(o) == o[1]

-----------------------------------------------------------------------------
(* Bounds of the model *)

\* update_time values of realtime_raw rows are 1..MaxTime
MaxTime == 2
\* at most MaxRows rows in realtime_raw
MaxRows == 4
\* at most MaxSnapshots snapshots of one feed, of header times 1..MaxSnapshots
MaxSnapshots == 3
\* --limit is absent or 0..MaxLimit
MaxLimit == 1
\* rows fetched per page; the program's value is 100
BATCH_SIZE == 3
\* rows of a page processed concurrently without groups; the program's
\* value is 20
CHUNK_SIZE == 2

\* at most MaxPeriods entries in the trip_replacement_period list of a header
MaxPeriods == 2

\* at most MaxEvents stop time events in a trip update
MaxEvents == 2

\* feed ids, in the collation order of the database
FeedIds == <<"1", "2">>

Feeds == {FeedIds[i] : i \in 1..Len(FeedIds)}

FeedRank(f) == CHOOSE i \in 1..Len(FeedIds) : FeedIds[i] = f

\* the ordering columns both processors pass to BatchProcessor.__init__
cols == <<"update_time", "feed_id">>

\* gtfs.TransitSystem.NYC_MTA.value
system == "nyc_mta"

JobNames == {"job"}

-----------------------------------------------------------------------------
(* Sequences *)

Range(s) == {s[i] : i \in DOMAIN s}

Last(s) == s[Len(s)]

Take(s, n) == SubSeq(s, 1, IF n < Len(s) THEN n ELSE Len(s))

Drop(s, n) == SubSeq(s, (IF n < Len(s) THEN n ELSE Len(s)) + 1, Len(s))

-----------------------------------------------------------------------------
(* Checkpoint (batch_process.py) *)

\* the Python type of a realtime_raw column value (db.py: update_time is a
\* DateTime column, feed_id a String column)
column_type(field_name) ==
    IF field_name = "update_time" THEN "datetime" ELSE "str"

\* the element of a set of one element
the(S) == CHOOSE x \in S : TRUE

\* Python values: str, int, datetime (its wall clock reading and its UTC
\* offset, None when it is naive) and dict
py_str(v) == [py |-> "str", v |-> v]
py_int(n) == [py |-> "int", n |-> n]
py_datetime(wall, utcoffset) ==
    [py |-> "datetime", wall |-> wall, utcoffset |-> utcoffset]
py_dict(items) == [py |-> "dict", items |-> items]

raised(exception) == [exception |-> exception]

raises(result) == "exception" \in DOMAIN result

\* == of Python: datetimes that are both aware are equal when they are the
\* same instant, a naive and an aware datetime are never equal
RECURSIVE py_eq(_, _)
py_eq(a, b) ==
    IF raises(a) \/ raises(b) \/ a.py # b.py THEN FALSE
    ELSE IF a.py = "datetime"
    THEN IF a.utcoffset = None \/ b.utcoffset = None
         THEN a.utcoffset = None /\ b.utcoffset = None /\ a.wall = b.wall
         ELSE a.wall - Get(a.utcoffset) = b.wall - Get(b.utcoffset)
    ELSE IF a.py = "dict"
    THEN /\ DOMAIN a.items = DOMAIN b.items
         /\ \A k \in DOMAIN a.items : py_eq(a.items[k], b.items[k])
    ELSE IF a.py = "int" THEN a.n = b.n
    ELSE a.v = b.v

\* the UTC offsets of the time zones, in hours
UtcOffsets == {0, 1}

\* the greatest clock reading of a row
MaxWall == IF MaxSnapshots > MaxTime THEN MaxSnapshots ELSE MaxTime

\* the datetimes whose text the model reads back
Datetimes ==
    {py_datetime(wall, utcoffset) :
        wall \in (0 - 1)..(MaxWall + 1),
        utcoffset \in {None} \cup {Some(o) : o \in UtcOffsets}}

\* datetime.astimezone(timezone.utc): a naive datetime is taken as a local
\* time of the system's time zone, of offset tz
astimezone_utc(value, tz) ==
    IF value.utcoffset = None THEN py_datetime(value.wall - tz, Some(0))
    ELSE py_datetime(value.wall - Get(value.utcoffset), Some(0))

\* datetime.isoformat: the reading, and the offset of an aware datetime
isoformat(value) ==
    IF value.utcoffset = None THEN "T" \o ToString(value.wall)
    ELSE "T" \o ToString(value.wall) \o "+" \o ToString(Get(value.utcoffset))

\* the ISO text of every datetime
IsoTexts == {<<isoformat(d), d>> : d \in Datetimes}

\* datetime.fromisoformat: the datetime of the text
fromisoformat(text) ==
    IF \E parsed \in IsoTexts : parsed[1] = text
    THEN (CHOOSE parsed \in IsoTexts : parsed[1] = text)[2]
    ELSE raised("ValueError")

\* the key of a JSON object json.dumps writes for a dict key
json_key(k) == IF k.py = "int" THEN ToString(k.n) ELSE k.v

\* the JSON document json.dumps writes for a value, before it is rendered as
\* text, or TypeError for a value that is not JSON serializable
RECURSIVE json_document(_)
json_document(value) ==
    CASE value.py = "str" -> [json |-> "string", v |-> value.v]
      [] value.py = "int" -> [json |-> "number", n |-> value.n]
      [] value.py = "datetime" -> raised("TypeError")
      [] value.py = "dict" ->
            IF \E k \in DOMAIN value.items :
                  \/ k.py \notin {"str", "int"}
                  \/ raises(json_document(value.items[k]))
            THEN raised("TypeError")
            ELSE [json |-> "object",
                  members |->
                      [name \in {json_key(k) : k \in DOMAIN value.items} |->
                          json_document(value.items[
                              CHOOSE k \in DOMAIN value.items :
                                  json_key(k) = name])]]

\* the text of a JSON document, with the separators "," and ":"
RECURSIVE json_text(_)
RECURSIVE json_members(_, _)
json_member(members, names, name) ==
    "\"" \o name \o "\":" \o json_text(members[name])
        \o (IF names = {name} THEN "" ELSE ",")
        \o json_members(members, names \ {name})

json_members(members, names) ==
    IF names = {} THEN ""
    ELSE the({json_member(members, names, name) :
                 name \in {CHOOSE name \in names : TRUE}})

json_text(document) ==
    CASE document.json = "string" -> "\"" \o document.v \o "\""
      [] document.json = "number" -> ToString(document.n)
      [] document.json = "object" ->
            "{" \o json_members(document.members, DOMAIN document.members)
                \o "}"

\* json.dumps: the str of the JSON text of a value, or TypeError
json_dumps_of(document) ==
    IF raises(document) THEN document ELSE py_str(json_text(document))

json_dumps(value) ==
    the({json_dumps_of(document) : document \in {json_document(value)}})

\* the value json.loads returns for a JSON document: the keys of a dict are
\* strs
RECURSIVE json_value(_)
json_value(document) ==
    CASE document.json = "string" -> py_str(document.v)
      [] document.json = "number" -> py_int(document.n)
      [] document.json = "object" ->
            py_dict([k \in {py_str(name) : name \in DOMAIN document.members}
                        |-> json_value(document.members[k.v])])

\* {"type": t, "value": value}
typed(t, value) ==
    py_dict((py_str("type") :> py_str(t)) @@ (py_str("value") :> value))

\* Checkpoint._serialize_value: a dict becomes {"type": "dict", "value":
\* the dict} and a datetime {"type": "datetime", "value": the ISO text of
\* the datetime in UTC}; any other value is kept
Checkpoint_serialize_value(field_name, value, tz) ==
    IF value.py = "dict" THEN typed("dict", value)
    ELSE IF value.py = "datetime"
    THEN typed("datetime", py_str(isoformat(astimezone_utc(value, tz))))
    ELSE value

\* Checkpoint._deserialize_value: a dict is of type "dict", whose value is
\* kept, or of type "datetime", whose value is parsed; any other value is
\* kept
Checkpoint_deserialize_value(field_name, serialized_value) ==
    IF serialized_value.py = "dict"
    THEN IF serialized_value.items[py_str("type")] = py_str("dict")
         THEN serialized_value.items[py_str("value")]
         ELSE IF serialized_value.items[py_str("type")] = py_str("datetime")
         THEN fromisoformat(serialized_value.items[py_str("value")].v)
         ELSE raised("Exception")
    ELSE serialized_value

\* RealtimeRawCheckpointDEPRECATED._serialize_value: update_time becomes
\* its ISO text
RealtimeRawCheckpointDEPRECATED_serialize_value(field_name, value, tz) ==
    IF field_name = "update_time"
    THEN IF value.py = "datetime" THEN py_str(isoformat(value))
         ELSE raised("AttributeError")
    ELSE Checkpoint_serialize_value(field_name, value, tz)

\* RealtimeRawCheckpointDEPRECATED._deserialize_value
RealtimeRawCheckpointDEPRECATED_deserialize_value(field_name, serialized_value) ==
    IF field_name = "update_time"
    THEN IF serialized_value.py = "str" THEN fromisoformat(serialized_value.v)
         ELSE raised("TypeError")
    ELSE Checkpoint_deserialize_value(field_name, serialized_value)

\* BatchProcessor.CheckpointCls of the two processors
CheckpointCls(cls) ==
    IF cls = "RealtimeBatchProcessorDEPRECATED"
    THEN "RealtimeRawCheckpointDEPRECATED" ELSE "Checkpoint"

\* _serialize_value of checkpoint class cls
serialize_value(cls, field_name, value, tz) ==
    IF cls = "RealtimeRawCheckpointDEPRECATED"
    THEN RealtimeRawCheckpointDEPRECATED_serialize_value(field_name, value, tz)
    ELSE Checkpoint_serialize_value(field_name, value, tz)

\* _deserialize_value of checkpoint class cls
deserialize_value(cls, field_name, serialized_value) ==
    IF cls = "RealtimeRawCheckpointDEPRECATED"
    THEN RealtimeRawCheckpointDEPRECATED_deserialize_value(field_name,
                                                           serialized_value)
    ELSE Checkpoint_deserialize_value(field_name, serialized_value)

\* the first exception of the values of a dict, or the dict
dict_or_raised(items) ==
    IF \E k \in DOMAIN items : raises(items[k])
    THEN items[CHOOSE k \in DOMAIN items : raises(items[k])]
    ELSE py_dict(items)

\* the dict Checkpoint.dumps hands to json.dumps
Checkpoint_serialized(cls, fields, tz) ==
    dict_or_raised([k \in {py_str(name) : name \in DOMAIN fields} |->
                       serialize_value(cls, k.v, fields[k.v], tz)])

\* Checkpoint.dumps of checkpoint class cls in a system of time zone tz:
\* the JSON text of the serialized fields
Checkpoint_dumps_of(serialized) ==
    IF raises(serialized) THEN serialized ELSE json_dumps(serialized)

Checkpoint_dumps(cls, fields, tz) ==
    the({Checkpoint_dumps_of(serialized) :
            serialized \in {Checkpoint_serialized(cls, fields, tz)}})

\* the checkpoint classes
CheckpointClasses == {"Checkpoint", "RealtimeRawCheckpointDEPRECATED"}

\* the mappings a field holds
Mappings ==
    {py_dict(py_str("a") :> py_int(1)),
     py_dict(py_int(1) :> py_str("a")),
     py_dict(py_str("a") :> py_datetime(1, Some(0)))}

\* the values a field of a checkpoint holds: strs, ints, naive and aware
\* datetimes, and mappings
FieldValues ==
    {py_str(f) : f \in Feeds} \cup {py_int(1)}
        \cup {py_datetime(wall, utcoffset) :
                  wall \in 0..MaxWall,
                  utcoffset \in {None} \cup {Some(o) : o \in UtcOffsets}}
        \cup Mappings

\* the checkpoints the model writes: a value of any type in update_time
\* beside a feed id, or in feed_id beside an aware update time
CheckpointFields ==
    [update_time : FieldValues, feed_id : {py_str(f) : f \in Feeds}]
        \cup [update_time : {py_datetime(wall, Some(0)) : wall \in 0..MaxWall},
              feed_id : FieldValues]

\* the JSON documents of the checkpoints
document_of(serialized) ==
    IF raises(serialized) THEN serialized ELSE json_document(serialized)

Documents ==
    {d \in {document_of(Checkpoint_serialized(cls, fields, tz)) :
                 cls \in CheckpointClasses, fields \in CheckpointFields,
                 tz \in UtcOffsets} : ~raises(d)}

\* JSON values that are not the checkpoint of a row: a number, objects of
\* one field, of three fields and of two fields of which one is no ordering
\* column, and objects whose update_time is of an unknown type, is not the
\* ISO text of a datetime, or is a plain str that is not one
OtherValues ==
    {py_int(1),
     py_dict(py_str("feed_id") :> py_str("1")),
     py_dict((py_str("feed_id") :> py_str("1"))
                 @@ (py_str("time") :> typed("datetime", py_str("T1+0")))),
     py_dict((py_str("feed_id") :> py_str("1"))
                 @@ (py_str("update_time") :> typed("datetime", py_str("T1+0")))
                 @@ (py_str("time") :> py_int(1))),
     py_dict((py_str("feed_id") :> py_str("1"))
                 @@ (py_str("update_time") :> typed("date", py_str("T1+0")))),
     py_dict((py_str("feed_id") :> py_str("1"))
                 @@ (py_str("update_time") :> typed("datetime", py_str("yesterday")))),
     py_dict((py_str("feed_id") :> py_str("1"))
                 @@ (py_str("update_time") :> py_str("yesterday")))}

OtherDocuments == {json_document(value) : value \in OtherValues}

\* the text and the document of every checkpoint and of the other values
JsonTexts == {<<json_text(d), d>> : d \in Documents \cup OtherDocuments}

\* json.loads: the value of the JSON text of a str
json_loads(text) ==
    IF \E parsed \in JsonTexts : parsed[1] = text.v
    THEN json_value((CHOOSE parsed \in JsonTexts : parsed[1] = text.v)[2])
    ELSE raised("JSONDecodeError")

\* the first exception of the fields, or the fields
fields_or_raised(fields) ==
    IF \E name \in DOMAIN fields : raises(fields[name])
    THEN fields[CHOOSE name \in DOMAIN fields : raises(fields[name])]
    ELSE fields

\* Checkpoint.loads of checkpoint class cls: the fields
Checkpoint_loads_of(cls, loaded) ==
    IF raises(loaded) THEN loaded
    ELSE fields_or_raised([name \in {k.v : k \in DOMAIN loaded.items} |->
                              deserialize_value(cls, name,
                                                loaded.items[py_str(name)])])

Checkpoint_loads(cls, serialized) ==
    the({Checkpoint_loads_of(cls, loaded) : loaded \in {json_loads(serialized)}})

\* the Python value of a column value of a row: update_time is an aware
\* datetime, feed_id a str
py_of(field_name, value) ==
    IF column_type(field_name) = "datetime" THEN py_datetime(value, Some(0))
    ELSE py_str(value)

\* the column value of a Python value
column_of(value) ==
    IF value.py = "datetime" THEN value.wall - Get(value.utcoffset)
    ELSE value.v

\* Checkpoint.dumps of the checkpoint of a row: the text
dumps(cls, fields) ==
    the({Checkpoint_dumps(cls, python, 0) :
            python \in {[k \in DOMAIN fields |-> py_of(k, fields[k])]}}).v

\* the column values of the fields
columns_of(fields) == [k \in DOMAIN fields |-> column_of(fields[k])]

\* Checkpoint.loads of the checkpoint of a row
loads(cls, serialized) ==
    the({columns_of(fields) :
            fields \in {Checkpoint_loads(cls, py_str(serialized))}})

\* Checkpoint.as_list, for matching columns
as_list(fields, columns) == [i \in 1..Len(columns) |-> fields[columns[i]]]

\* the checkpoints a caller can pass as --checkpoint, in the format of the
\* processor's checkpoint class
Cursors(cls) == {dumps(cls, [update_time |-> t, feed_id |-> f]) :
                     t \in 1..MaxTime, f \in Feeds}

-----------------------------------------------------------------------------
(* The query over realtime_raw (BatchProcessor.get_query) *)

\* row value comparison (update_time, feed_id) > (t, f) of the database
TupleGT(a, b) ==
    \/ a[1] > b[1]
    \/ a[1] = b[1] /\ FeedRank(a[2]) > FeedRank(b[2])

RowKey(row) == [i \in 1..Len(cols) |-> row[cols[i]]]

\* ORDER BY update_time DESC, feed_id DESC
RECURSIVE order_by_desc(_)
order_by_desc(S) ==
    IF S = {} THEN <<>>
    ELSE LET first == CHOOSE r \in S :
                        \A q \in S \ {r} : TupleGT(RowKey(r), RowKey(q))
         IN <<first>> \o order_by_desc(S \ {first})

\* ORDER BY update_time, feed_id
RECURSIVE order_by(_)
order_by(S) ==
    IF S = {} THEN <<>>
    ELSE LET first == CHOOSE r \in S :
                        \A q \in S \ {r} : TupleGT(RowKey(q), RowKey(r))
         IN <<first>> \o order_by(S \ {first})

\* the WHERE clause with >= in place of >
AfterCheckpoint_inclusive(row, checkpoint) ==
    ~TupleGT(as_list(checkpoint, cols), RowKey(row))

\* the WHERE clause added for a starting checkpoint
AfterCheckpoint(row, checkpoint) ==
    TupleGT(RowKey(row), as_list(checkpoint, cols))

\* the `where` a processor passes to BatchProcessor.__init__: its system,
\* and for MTARealtimeProcessor(from_time) update_time >= from_time
where(processor, row) ==
    /\ row.system = system
    /\ processor.from_time # None => row.update_time >= Get(processor.from_time)

\* get_query without its LIMIT
get_query_unlimited(processor, tbl, checkpoint, limit) ==
    order_by({r \in tbl :
                 /\ where(processor, r)
                 /\ checkpoint = None \/ AfterCheckpoint(r, Get(checkpoint))})

\* BatchProcessor.get_query: the rows the query returns, in order
get_query(processor, tbl, checkpoint, limit) ==
    LET matching == {r \in tbl :
                        /\ where(processor, r)
                        /\ checkpoint = None \/ AfterCheckpoint(r, Get(checkpoint))}
        ordered  == order_by(matching)
    IN IF limit = None THEN ordered ELSE Take(ordered, Get(limit))

\* c.chunk: consecutive slices of `size` elements, the last one shorter or full
RECURSIVE chunk_from(_, _, _)
chunk_from(l, size, cursor) ==
    IF cursor + size < Len(l)
    THEN <<SubSeq(l, cursor + 1, cursor + size)>>
             \o chunk_from(l, size, cursor + size)
    ELSE IF cursor < Len(l) THEN <<SubSeq(l, cursor + 1, Len(l))>> ELSE <<>>

chunk(l, size) == chunk_from(l, size, 0)

-----------------------------------------------------------------------------
(* Decoding a snapshot (scraper/gtfs/gtfs.py).  A snapshot `raw` is the    *)
(* protobuf message                                                        *)
(*   [header |-> [timestamp, trip_replacement_period],                     *)
(*    entity |-> << [trip_update |-> Optional, vehicle |-> Optional] >>]   *)
(* where trip_replacement_period is the list of the NYCT header extension  *)
(* (empty when the header has no extension).                               *)

\* datetime.date of a YYYYMMDD string (_parse_trip_descriptor, lines 93-98)
date_of(yyyymmdd) ==
    CASE yyyymmdd = "20200302" -> <<2020, 3, 2>>
      [] yyyymmdd = "20200306" -> <<2020, 3, 6>>
      [] yyyymmdd = "20200307" -> <<2020, 3, 7>>
      [] yyyymmdd = "20200308" -> <<2020, 3, 8>>

\* date.weekday(): Monday is 0, Sunday is 6
weekday(d) ==
    CASE d = <<2020, 3, 2>> -> 0
      [] d = <<2020, 3, 6>> -> 4
      [] d = <<2020, 3, 7>> -> 5
      [] d = <<2020, 3, 8>> -> 6

\* gtfs._parse_trip_descriptor: an absent or empty route_id is None, the
\* MTA's "SS" is "SI"
parse_trip_descriptor(trip_pb) ==
    LET route_id == IF trip_pb.route_id # None /\ Get(trip_pb.route_id) # ""
                    THEN trip_pb.route_id ELSE None
    IN [trip_id    |-> trip_pb.trip_id,
        route_id   |-> IF route_id = Some("SS") THEN Some("SI") ELSE route_id,
        start_date |-> date_of(trip_pb.start_date)]

\* a decoder that reads the departure as the arrival and the arrival as the
\* departure
parse_stop_time_update_swapped(stu_pb) ==
    [stop_id   |-> stu_pb.stop_id,
     arrival   |-> stu_pb.departure,
     departure |-> stu_pb.arrival]

\* gtfs._parse_stop_time_update
parse_stop_time_update(stu_pb) ==
    [stop_id   |-> stu_pb.stop_id,
     arrival   |-> stu_pb.arrival,
     departure |-> stu_pb.departure]

\* gtfs._parse_trip_update
parse_trip_update(tu_pb) ==
    [trip              |-> parse_trip_descriptor(tu_pb.trip),
     stop_time_updates |-> [i \in 1..Len(tu_pb.stop_time_update) |->
                               parse_stop_time_update(tu_pb.stop_time_update[i])],
     timestamp         |-> tu_pb.timestamp]

\* gtfs._parse_vehicle_position; an absent current_status reads as
\* IN_TRANSIT_TO
parse_vehicle_position(vehicle_pb) ==
    [trip                  |-> parse_trip_descriptor(vehicle_pb.trip),
     current_stop_sequence |-> vehicle_pb.current_stop_sequence,
     stop_id               |-> vehicle_pb.stop_id,
     current_status        |-> IF vehicle_pb.current_status = None
                               THEN "IN_TRANSIT_TO"
                               ELSE Get(vehicle_pb.current_status),
     timestamp             |-> vehicle_pb.timestamp]

\* a Dict: a function on its keys
EmptyDict == << >>

\* dct[key] = value
setitem(dct, key, value) ==
    [k \in DOMAIN dct \cup {key} |-> IF k = key THEN value ELSE dct[k]]

\* a backfill that overwrites the entry of the key
setdefault_overwriting(dct, key, value) == setitem(dct, key, value)

\* if key not in dct: dct[key] = value
setdefault(dct, key, value) ==
    IF key \in DOMAIN dct THEN dct ELSE setitem(dct, key, value)

\* the three backfill rules both parse_feed_message (lines 198-211) and
\* _fix_trip_replacements (lines 29-42) apply for an entry (route_id,
\* end_time), one after the other
backfill_GS(replacements, feed_id, route_id, end_time) ==
    IF feed_id = "1" /\ route_id = "S"
    THEN setdefault(replacements, "GS", end_time) ELSE replacements

backfill_6X(replacements, route_id, end_time) ==
    IF route_id = "6" THEN setdefault(replacements, "6X", end_time)
    ELSE replacements

backfill_7X(replacements, route_id, end_time) ==
    IF route_id = "7" THEN setdefault(replacements, "7X", end_time)
    ELSE replacements

backfill(replacements, feed_id, route_id, end_time) ==
    backfill_7X(backfill_6X(backfill_GS(replacements, feed_id, route_id, end_time),
                            route_id, end_time),
                route_id, end_time)

\* parse_feed_message, lines 190-211: the loop over the header's
\* trip_replacement_period list, from entry i on
RECURSIVE parse_trip_replacements(_, _, _, _)
parse_trip_replacements(replacements, feed_id, periods, i) ==
    IF i > Len(periods) THEN replacements
    ELSE parse_trip_replacements(
             backfill(setitem(replacements, periods[i].route_id, periods[i].end),
                      feed_id, periods[i].route_id, periods[i].end),
             feed_id, periods, i + 1)

\* the entities of a message that have the field `field`, in their order
RECURSIVE entities_with(_, _, _)
entities_with(entity, field, i) ==
    IF i > Len(entity) THEN <<>>
    ELSE (IF entity[i][field] # None THEN <<Get(entity[i][field])>> ELSE <<>>)
             \o entities_with(entity, field, i + 1)

\* parse_feed_message, lines 214-217
parse_trip_updates(trip_update_pbs) ==
    [i \in 1..Len(trip_update_pbs) |-> parse_trip_update(trip_update_pbs[i])]

\* parse_feed_message, lines 218-221
parse_vehicle_positions(vehicle_pbs) ==
    [i \in 1..Len(vehicle_pbs) |-> parse_vehicle_position(vehicle_pbs[i])]

\* gtfs.parse_feed_message
parse_feed_message(feed_id, feed_message_pb) ==
    [system            |-> system,
     feed_id           |-> feed_id,
     timestamp         |-> feed_message_pb.header.timestamp,
     trip_replacements |-> parse_trip_replacements(
                               EmptyDict, feed_id,
                               feed_message_pb.header.trip_replacement_period, 1),
     trip_updates      |-> parse_trip_updates(
                               entities_with(feed_message_pb.entity,
                                             "trip_update", 1)),
     vehicle_positions |-> parse_vehicle_positions(
                               entities_with(feed_message_pb.entity,
                                             "vehicle", 1))]

\* a window counts only while its end is after the timestamp
is_trip_replaced_strict(message, route_id) ==
    /\ route_id \in DOMAIN message.trip_replacements
    /\ message.trip_replacements[route_id] > message.timestamp

\* FeedMessage.is_trip_replaced
is_trip_replaced(message, route_id) ==
    /\ route_id \in DOMAIN message.trip_replacements
    /\ message.trip_replacements[route_id] >= message.timestamp

-----------------------------------------------------------------------------
(* Trip ids (scraper/nyc.py).  A string is the sequence of its characters. *)

Digits == {"0", "1", "2", "3", "4", "5", "6", "7", "8", "9"}

\* str + str
concat(s, t) == s \o t

\* does `lit` stand in s at position i
at(s, i, lit) ==
    /\ i >= 1
    /\ i + Len(lit) - 1 <= Len(s)
    /\ SubSeq(s, i, i + Len(lit) - 1) = lit

\* s[i:j] of digits only (positions i..j, 1-based, both included)
digits(s, i, j) ==
    /\ i >= 1
    /\ j <= Len(s)
    /\ \A x \in i..j : s[x] \in Digits

\* str.startswith
startswith(s, prefix) == at(s, 1, prefix)

\* str.rstrip(".")
RECURSIVE rstrip(_)
rstrip(s) ==
    IF s # << >> /\ s[Len(s)] = "." THEN rstrip(SubSeq(s, 1, Len(s) - 1))
    ELSE s

\* s[:stop] of Python: a negative stop counts from the end, and -0 is 0
slice_to(s, stop) ==
    IF stop < 0 THEN SubSeq(s, 1, Len(s) + stop)
    ELSE SubSeq(s, 1, stop)

\* the alternatives of TRIP_ID_RE
SubDivisions == {<<"A">>, <<"B">>, <<"S", "I", "R">>}
\* nyc.ServiceDay, a member being its value
WEEKDAY == <<"W", "e", "e", "k", "d", "a", "y">>
SATURDAY == <<"S", "a", "t", "u", "r", "d", "a", "y">>
SUNDAY == <<"S", "u", "n", "d", "a", "y">>
ServiceCodes == {WEEKDAY, SATURDAY, SUNDAY}
Suffixes == {<<"G", "E", "N">>, <<"S", "U", "P", "P">>}
Directions == {"N", "S", "E", "W"}

\* (?P<sub_division>A|B|SIR)-? : the position after it, 0 when it does not
\* match.  The alternatives exclude each other, and the dash, when it is
\* there, is taken: FA cannot start with it.
after_sub_division(s) ==
    IF \E sub \in SubDivisions : at(s, 1, sub)
    THEN LET sub == CHOOSE sub \in SubDivisions : at(s, 1, sub)
         IN IF at(s, Len(sub) + 1, <<"-">>) THEN Len(sub) + 2
            ELSE Len(sub) + 1
    ELSE 0

\* \d+ from position i: the position after the last digit of the run
RECURSIVE after_digits(_, _)
after_digits(s, i) ==
    IF i <= Len(s) /\ s[i] \in Digits THEN after_digits(s, i + 1) ELSE i

\* (GEN|SUPP)? from position i: the position after it
after_suffix(s, i) ==
    IF \E suffix \in Suffixes : at(s, i, suffix)
    THEN i + Len(CHOOSE suffix \in Suffixes : at(s, i, suffix))
    ELSE i

\* (?P<effective_date>FA\d+(GEN|SUPP)?)- from position i: the position
\* after the dash, 0 when it does not match.  A shorter run of digits or a
\* suffix left out is never followed by the dash, so this is the only way.
after_effective_date(s, i) ==
    IF /\ i >= 1
       /\ at(s, i, <<"F", "A">>)
       /\ after_digits(s, i + 2) > i + 2
       /\ at(s, after_suffix(s, after_digits(s, i + 2)), <<"-">>)
    THEN after_suffix(s, after_digits(s, i + 2)) + 1
    ELSE 0

\* -(?P<service_code>Weekday|Saturday|Sunday)-(?P<unknown_2>\d{2})_
\* (?P<origin_time>\d{6})_ from the dash at position p: the service code,
\* or << >> when it does not match
service_code_at(s, p) ==
    IF \E code \in ServiceCodes :
           /\ at(s, p, <<"-">>)
           /\ at(s, p + 1, code)
           /\ at(s, p + 1 + Len(code), <<"-">>)
           /\ digits(s, p + Len(code) + 2, p + Len(code) + 3)
           /\ at(s, p + Len(code) + 4, <<"_">>)
           /\ digits(s, p + Len(code) + 5, p + Len(code) + 10)
           /\ at(s, p + Len(code) + 11, <<"_">>)
    THEN CHOOSE code \in ServiceCodes : at(s, p + 1, code)
    ELSE << >>

\* (?P<route_id_and_dots>.+)\.{1,2}(?P<direction>[NSEW])
\* (?P<path_identifier>.*) from position q to the end: the ends k of the
\* candidates of route_id_and_dots
route_ends(s, q) ==
    {k \in q..Len(s) :
        \/ at(s, k + 1, <<".">>) /\ k + 2 <= Len(s) /\ s[k + 2] \in Directions
        \/ at(s, k + 1, <<".", ".">>) /\ k + 3 <= Len(s)
                                      /\ s[k + 3] \in Directions}

\* the position of the direction when route_id_and_dots ends at k
direction_at(s, k) ==
    IF at(s, k + 1, <<".", ".">>) /\ k + 3 <= Len(s) /\ s[k + 3] \in Directions
    THEN k + 3 ELSE k + 2

\* the dashes p at which (?P<unknown_1>.+) can end, when it starts at u
unknown_1_ends(s, u) ==
    {p \in (u + 1)..Len(s) :
        /\ service_code_at(s, p) # << >>
        /\ route_ends(s, p + Len(service_code_at(s, p)) + 12) # {}}

Max(S) == CHOOSE x \in S : \A y \in S : y <= x

\* the groups of the match whose unknown_1 is s[u..p-1], whose trip path
\* starts at q and whose route_id_and_dots ends at k
groups_of(s, u, p, q, k) ==
    [sub_division      |-> CHOOSE sub \in SubDivisions : at(s, 1, sub),
     effective_date    |-> SubSeq(s, after_sub_division(s), u - 2),
     unknown_1         |-> SubSeq(s, u, p - 1),
     service_code      |-> service_code_at(s, p),
     origin_time       |-> SubSeq(s, q - 7, q - 2),
     trip_path         |-> SubSeq(s, q, Len(s)),
     route_id_and_dots |-> SubSeq(s, q, k),
     direction         |-> <<s[direction_at(s, k)]>>,
     path_identifier   |-> SubSeq(s, direction_at(s, k) + 1, Len(s))]

\* the greedy .+ of unknown_1 ends at the last dash from which the rest
\* matches, and the greedy .+ of route_id_and_dots at the last end
groups_from(s, u, p) ==
    groups_of(s, u, p, p + Len(service_code_at(s, p)) + 12,
              Max(route_ends(s, p + Len(service_code_at(s, p)) + 12)))

\* re.fullmatch(TRIP_ID_RE, trip_id, re.VERBOSE): the groups, or None
fullmatch_from(s, u) ==
    IF u = 0 \/ unknown_1_ends(s, u) = {} THEN None
    ELSE Some(groups_from(s, u, Max(unknown_1_ends(s, u))))

fullmatch(s) ==
    fullmatch_from(s, after_effective_date(s, after_sub_division(s)))

\* the TripID of a match
TripID(m) ==
    [sub_division    |-> m.sub_division,
     effective_date  |-> m.effective_date,
     service_day     |-> m.service_code,
     origin_time     |-> m.origin_time,
     trip_path       |-> m.trip_path,
     route_id        |-> rstrip(m.route_id_and_dots),
     direction       |-> m.direction,
     path_identifier |-> m.path_identifier]

\* nyc.parse_trip_id
parse_trip_id_of(m) ==
    IF m = None THEN raised("Exception")
    ELSE IF ~startswith(Get(m).unknown_1, rstrip(Get(m).route_id_and_dots))
    THEN raised("AssertionError")
    ELSE TripID(Get(m))

parse_trip_id(trip_id) == parse_trip_id_of(fullmatch(trip_id))

\* nyc.short_trip_ids: origin time and trip path, and the same without the
\* path identifier
short_trip_ids_of(parsed) ==
    IF raises(parsed) THEN parsed
    ELSE <<concat(concat(parsed.origin_time, <<"_">>), parsed.trip_path),
           concat(concat(parsed.origin_time, <<"_">>),
                  slice_to(parsed.trip_path, - Len(parsed.path_identifier)))>>

short_trip_ids(trip_id) == short_trip_ids_of(parse_trip_id(trip_id))

-----------------------------------------------------------------------------
(* The static schedule (tables stops, trips, mta_trip_id of db.py)         *)

\* stop ids of the stops table
stops == {"S1", "S2"}

\* trip ids of the trips table (trips.txt)
AFA19GEN_1037_Sunday ==
    <<"A", "F", "A", "1", "9", "G", "E", "N", "-", "1", "0", "3", "7", "-",
      "S", "u", "n", "d", "a", "y", "-", "0", "0", "_",
      "0", "1", "0", "6", "0", "0", "_", "1", ".", ".", "S", "0", "3", "R">>
AFA19GEN_1038_Sunday ==
    <<"A", "F", "A", "1", "9", "G", "E", "N", "-", "1", "0", "3", "8", "-",
      "S", "u", "n", "d", "a", "y", "-", "0", "0", "_",
      "0", "1", "0", "6", "0", "0", "_", "1", ".", ".", "S", "0", "4", "R">>
AFA19GEN_1037_Saturday ==
    <<"A", "F", "A", "1", "9", "G", "E", "N", "-", "1", "0", "3", "7", "-",
      "S", "a", "t", "u", "r", "d", "a", "y", "-", "0", "0", "_",
      "0", "1", "0", "6", "0", "0", "_", "1", ".", ".", "S", "0", "3", "R">>
trips == {AFA19GEN_1037_Sunday, AFA19GEN_1038_Sunday, AFA19GEN_1037_Saturday}

\* an id of the realtime feed that no trip of the schedule has
Short_090000_6_N01R ==
    <<"0", "9", "0", "0", "0", "0", "_", "6", ".", ".", "N", "0", "1", "R">>

\* rows of the mta_trip_id table, as the importer computes them from the
\* trips (importer.py, lines 103-113)
mta_trip_id ==
    {[alternate_trip_id |-> short_trip_ids(trip_id)[i],
      service_day |-> parse_trip_id(trip_id).service_day,
      trip_id |-> trip_id] : trip_id \in trips, i \in 1..2}

\* a lookup that finds every stop
get_stop_exists_unchecked(stop_id) == TRUE

\* get_stop_exists (MTARealtimeParser) / _get_stop_exists (RealtimeWriter)
get_stop_exists(stop_id) == stop_id \in stops

\* get_trip_row_from_id: the trips row, or None
get_trip_row_from_id(trip_id) ==
    IF trip_id \in trips THEN Some([trip_id |-> trip_id]) ELSE None

\* get_trip_row_from_descriptor, lines 130-142: the service day of a date
service_day_of(start_date) ==
    IF weekday(start_date) < 5 THEN WEEKDAY
    ELSE IF weekday(start_date) = 5 THEN SATURDAY ELSE SUNDAY

\* a lookup that takes one of several rows of the alternate id
get_trip_row_from_descriptor_guessing(trip_descriptor) ==
    LET row == get_trip_row_from_id(trip_descriptor.trip_id)
        alt == {r \in mta_trip_id :
                   /\ r.alternate_trip_id = trip_descriptor.trip_id
                   /\ r.service_day = service_day_of(trip_descriptor.start_date)}
    IN IF row # None THEN row
       ELSE IF alt = {} THEN None
       ELSE get_trip_row_from_id((CHOOSE r \in alt : TRUE).trip_id)

\* get_trip_row_from_descriptor: by trip id, else by the one mta_trip_id row
\* of the alternate id and service day
get_trip_row_from_descriptor(trip_descriptor) ==
    LET row == get_trip_row_from_id(trip_descriptor.trip_id)
        alt == {r \in mta_trip_id :
                   /\ r.alternate_trip_id = trip_descriptor.trip_id
                   /\ r.service_day = service_day_of(trip_descriptor.start_date)}
    IN IF row # None THEN row
       ELSE IF Cardinality(alt) # 1 THEN None
       ELSE get_trip_row_from_id((CHOOSE r \in alt : TRUE).trip_id)

-----------------------------------------------------------------------------
(* Reconciling a message (MTARealtimeParser.fix_feed_mesesage)             *)

\* _is_valid_trip_descriptor
is_valid_trip_descriptor(trip) == trip.route_id # None

\* a check of the stop only
is_valid_stop_time_update_of_stop(stu) == get_stop_exists(stu.stop_id)

\* _fix_trip_update.is_valid_stop_time_update
is_valid_stop_time_update(stu) ==
    /\ get_stop_exists(stu.stop_id)
    /\ ~(stu.arrival = None /\ stu.departure = None)

\* _fix_trip_update, for a valid descriptor: c.afilter keeps the valid stop
\* time updates, in their order
fix_trip_update(update) ==
    [update EXCEPT !.stop_time_updates =
                       SelectSeq(@, is_valid_stop_time_update)]

\* _fix_trip_updates: updates without a route are dropped
fix_trip_updates(message) ==
    LET valid(update) == is_valid_trip_descriptor(update.trip)
        kept == SelectSeq(message.trip_updates, valid)
    IN [message EXCEPT !.trip_updates =
                           [i \in 1..Len(kept) |-> fix_trip_update(kept[i])]]

\* _fix_trip_replacements, lines 28-42: the loop over the items of the
\* message's map, of which `items` are the routes still to visit, on the copy
\* `replacements`.  The rules write three routes that they never read, so
\* the order of the visits does not show.
RECURSIVE fix_items(_, _, _)
fix_item(replacements, message, items, route_id) ==
    fix_items(backfill(replacements, message.feed_id, route_id,
                       message.trip_replacements[route_id]),
              message, items \ {route_id})

fix_items(replacements, message, items) ==
    IF items = {} THEN replacements
    ELSE fix_item(replacements, message, items, CHOOSE r \in items : TRUE)

\* _fix_trip_replacements
fix_trip_replacements(message) ==
    [message EXCEPT !.trip_replacements =
                        fix_items(@, message, DOMAIN @)]

\* fix_feed_mesesage
fix_feed_mesesage(message) == fix_trip_updates(fix_trip_replacements(message))

-----------------------------------------------------------------------------
(* The reconciled store.  A table is the set of its rows; a statement      *)
(* yields [ok, tbl]: ok is FALSE when the database rejects the statement,  *)
(* which then changes nothing.                                             *)
(* mta_realtime_processor.py names the tables realtime_stop_times2 and     *)
(* realtime_raw_stop_times and the attribute TripDescriptor.train_id,      *)
(* which db.py and gtfs.py do not declare; they are modelled from their    *)
(* uses: the index_elements of an upsert are a unique key of its table,    *)
(* and a trip descriptor carries no train id.                              *)

\* the route ids of the routes table
routes == {"R1"}

\* the values of the columns `columns` of a row
key_of(row, columns) == [i \in 1..Len(columns) |-> row[columns[i]]]

\* the row of tbl that conflicts with `values` on index_elements, as a set
conflicting(tbl, values, index_elements) ==
    {r \in tbl : key_of(r, index_elements) = key_of(values, index_elements)}

\* an upsert that updates whatever its WHERE says
where_any(where_, stored, excluded) == TRUE

\* the WHERE of an upsert, `where_`: None, or Some(col) for
\* table.col <= excluded.col
where_holds(where_, stored, excluded) ==
    where_ = None \/ stored[Get(where_)] <= excluded[Get(where_)]

\* the foreign keys db.py declares: a row of realtime_stop_times or of
\* realtime_vehicle_positions refers to a route and to a stop
foreign_keys_hold(table_name, values) ==
    table_name \in {"realtime_stop_times", "realtime_vehicle_positions"} =>
        values.route_id \in routes /\ values.stop_id \in stops

\* one proposed row of an upsert without a WHERE: the proposed row replaces
\* the stored one
upsert_row_unconditional(tbl, values, index_elements, set_, where_) ==
    (tbl \ conflicting(tbl, values, index_elements)) \cup {values}

\* one proposed row of INSERT ... ON CONFLICT (index_elements) DO UPDATE SET
\* set_ = excluded.set_ WHERE where_
upsert_row(tbl, values, index_elements, set_, where_) ==
    LET stored == conflicting(tbl, values, index_elements)
    IN IF stored = {} THEN tbl \cup {values}
       ELSE LET old == CHOOSE r \in stored : TRUE
            IN IF where_holds(where_, old, values)
               THEN (tbl \ {old}) \cup
                      {[col \in DOMAIN old |->
                           IF col \in Range(set_) THEN values[col] ELSE old[col]]}
               ELSE tbl

\* the i-th proposed row meets a row that an earlier proposed row of the
\* same statement inserted or updated: the database raises "ON CONFLICT DO
\* UPDATE command cannot affect row a second time"
affects_twice(tbl, values_list, i, index_elements, where_) ==
    \E j \in 1..(i - 1) :
        /\ key_of(values_list[j], index_elements)
               = key_of(values_list[i], index_elements)
        /\ \A old \in conflicting(tbl, values_list[j], index_elements) :
               where_holds(where_, old, values_list[j])

RECURSIVE upsert_from(_, _, _, _, _, _)
upsert_from(tbl, values_list, i, index_elements, set_, where_) ==
    IF i > Len(values_list) THEN tbl
    ELSE upsert_from(upsert_row(tbl, values_list[i], index_elements, set_, where_),
                     values_list, i + 1, index_elements, set_, where_)

\* insert(table).values(values_list).on_conflict_do_update(index_elements,
\* set_, where_) on the rows tbl of table table_name, executed as one
\* statement
on_conflict_do_update(table_name, tbl, values_list, index_elements, set_, where_) ==
    IF \/ \E i \in 1..Len(values_list) :
             ~foreign_keys_hold(table_name, values_list[i])
       \/ \E i \in 1..Len(values_list) :
             affects_twice(tbl, values_list, i, index_elements, where_)
    THEN [ok |-> FALSE, tbl |-> tbl]
    ELSE [ok |-> TRUE,
          tbl |-> upsert_from(tbl, values_list, 1, index_elements, set_, where_)]

\* the state of the store before any snapshot is processed
EmptyStore ==
    [realtime_stop_times        |-> {},
     realtime_vehicle_positions |-> {},
     realtime_stop_times2       |-> {},
     realtime_raw_stop_times    |-> {}]

-----------------------------------------------------------------------------
(* RealtimeWriter (scraper/realtime_writer.py), the writer of              *)
(* RealtimeBatchProcessorDEPRECATED                                        *)

\* trip_id = trip_row.trip_id if the schedule has the trip, else the
\* descriptor's trip id
trip_id_of(trip_row, trip_descriptor) ==
    IF trip_row # None THEN Get(trip_row).trip_id ELSE trip_descriptor.trip_id

\* _write_trip_update.get_insert_values: the row of a stop time update, or
\* None when its stop is unknown or it has neither arrival nor departure
get_insert_values(stop_time_update, update, message) ==
    IF ~get_stop_exists(stop_time_update.stop_id) THEN None
    ELSE IF stop_time_update.arrival = None /\ stop_time_update.departure = None
    THEN None
    ELSE Some([system      |-> message.system,
               route_id    |-> Get(update.trip.route_id),
               stop_id     |-> stop_time_update.stop_id,
               start_date  |-> update.trip.start_date,
               trip_id     |-> trip_id_of(
                                   get_trip_row_from_descriptor(update.trip),
                                   update.trip),
               timestamp   |-> update.timestamp,
               arrival     |-> stop_time_update.arrival,
               departure   |-> stop_time_update.departure,
               update_time |-> message.timestamp])

\* the key under which _write_trip_update collects a row in its dict
insert_key(values) ==
    <<values.system, values.route_id, values.stop_id, values.start_date>>

\* a dict that keeps the value a key was first given: one row per key, the
\* key's first
dict_values_first(rows_) ==
    LET first(i) == \A j \in 1..(i - 1) : insert_key(rows_[j]) # insert_key(rows_[i])
        RECURSIVE from(_)
        from(i) == IF i > Len(rows_) THEN <<>>
                   ELSE (IF first(i) THEN <<rows_[i]>> ELSE <<>>) \o from(i + 1)
    IN from(1)

\* list(dict(insert_key_values).values()): one row per key, at the position
\* of the key's first row and with the values of its last
dict_values(rows_) ==
    LET firsts == {i \in 1..Len(rows_) :
                     \A j \in 1..(i - 1) : insert_key(rows_[j]) # insert_key(rows_[i])}
        last_of(i) == CHOOSE j \in 1..Len(rows_) :
                         /\ insert_key(rows_[j]) = insert_key(rows_[i])
                         /\ \A k \in (j + 1)..Len(rows_) :
                               insert_key(rows_[k]) # insert_key(rows_[i])
        RECURSIVE from(_)
        from(i) == IF i > Len(rows_) THEN <<>>
                   ELSE (IF i \in firsts THEN <<rows_[last_of(i)]>> ELSE <<>>)
                            \o from(i + 1)
    IN from(1)

\* _write_trip_update, lines 107-117: the rows of the update's stop times,
\* one per key
insert_values(update, message) ==
    LET stus == update.stop_time_updates
        present(v) == v # None
        insert_key_values ==
            SelectSeq([i \in 1..Len(stus) |->
                          get_insert_values(stus[i], update, message)], present)
    IN dict_values([i \in 1..Len(insert_key_values) |-> Get(insert_key_values[i])])

\* _write_trip_update, lines 119-138: the upsert of the collected rows, when
\* there are any
execute_insert(tbl, values_list) ==
    IF Len(values_list) = 0 THEN <<>>
    ELSE <<on_conflict_do_update(
              "realtime_stop_times", tbl, values_list,
              <<"system", "route_id", "stop_id", "start_date", "trip_id">>,
              <<"timestamp", "arrival", "departure", "update_time">>,
              Some("update_time"))>>

\* RealtimeWriter._write_trip_update: the statements it executes on
\* realtime_stop_times, one [ok, tbl] or, without a route or without rows
\* to write, none
write_trip_update(tbl, update, message) ==
    IF ~is_valid_trip_descriptor(update.trip) THEN <<>>
    ELSE execute_insert(tbl, insert_values(update, message))

-----------------------------------------------------------------------------
(* MTARealtimeProcessor (scraper/mta_realtime_processor.py)                *)

\* serialize_stop_time: the times become POSIX timestamps
serialize_stop_time(stu) ==
    [stop_id   |-> stu.stop_id,
     arrival   |-> IF stu.arrival # None
                   THEN Some(<<"posix", Get(stu.arrival)>>) ELSE None,
     departure |-> IF stu.departure # None
                   THEN Some(<<"posix", Get(stu.departure)>>) ELSE None]

\* deserialize_stop_time: datetime.fromtimestamp of the stored timestamps
deserialize_stop_time(obj) ==
    [stop_id   |-> obj.stop_id,
     arrival   |-> IF obj.arrival # None THEN Some(Get(obj.arrival)[2]) ELSE None,
     departure |-> IF obj.departure # None THEN Some(Get(obj.departure)[2])
                   ELSE None]

\* update.trip.train_id or "": a trip descriptor of gtfs.py has no train id
train_id_of(trip) == ""

\* ORDER BY time DESC over rows of distinct time
RECURSIVE order_by_time_desc(_)
order_by_time_desc(S) ==
    IF S = {} THEN <<>>
    ELSE LET first == CHOOSE r \in S : \A q \in S : q.time <= r.time
         IN <<first>> \o order_by_time_desc(S \ {first})

\* the select of process_trip_update: the last entries of this trip in
\* realtime_raw_stop_times before the message, newest first, deserialized
deserialize_stop_times(rows_) ==
    [i \in 1..Len(rows_) |->
        [j \in 1..Len(rows_[i].stop_times) |->
            deserialize_stop_time(rows_[i].stop_times[j])]]

previous_stop_times(raw_table, key, message) ==
    deserialize_stop_times(
        Take(order_by_time_desc({r \in raw_table :
                                    /\ r.system = system
                                    /\ r.route_id = key.route_id
                                    /\ r.start_date = key.start_date
                                    /\ r.trip_id = key.trip_id
                                    /\ r.train_id = key.train_id
                                    /\ r.time < message.timestamp}), 5))

\* stu.arrival if stu.arrival is not None else stu.departure
arrival_or_departure(stu) == IF stu.arrival # None THEN stu.arrival ELSE stu.departure

\* min() of a non-empty list of times
min(l) == CHOOSE x \in Range(l) : \A y \in Range(l) : x <= y

\* the earliest time of the current stop list
earliest_stop_time(stop_time_updates) ==
    min([i \in 1..Len(stop_time_updates) |->
            Get(arrival_or_departure(stop_time_updates[i]))])

\* a stop of the last entry is outdated: the current stop list omits it and
\* it is still due, after the message's time and not before the earliest
\* current stop
is_outdated(stu, time, stop_time_updates, message) ==
    /\ \A i \in 1..Len(stop_time_updates) :
           stop_time_updates[i].stop_id # stu.stop_id
    /\ time > message.timestamp
    /\ time >= earliest_stop_time(stop_time_updates)

\* process_trip_update, lines 147-175: the outdated stops of the last entry,
\* when there is a last entry and a current stop list
outdated_stop_ids(previous, stop_time_updates, message) ==
    IF Len(previous) > 0 /\ Len(stop_time_updates) > 0
    THEN {previous[1][i].stop_id :
             i \in {j \in 1..Len(previous[1]) :
                       is_outdated(previous[1][j],
                                   Get(arrival_or_departure(previous[1][j])),
                                   stop_time_updates, message)}}
    ELSE {}

\* the executed statements of a coroutine, as the stores they leave one
\* after the other, and whether the coroutine ran to its end
Trace(states, ok) == [states |-> states, ok |-> ok]

\* process_trip_update, lines 61-81: the trip an update is stored under
trip_key(update) ==
    [route_id   |-> Get(update.trip.route_id),
     start_date |-> update.trip.start_date,
     trip_id    |-> trip_id_of(get_trip_row_from_descriptor(update.trip),
                               update.trip),
     train_id   |-> train_id_of(update.trip)]

\* process_trip_update, lines 108-125: the rows of the update's stop times,
\* for the trip `key`
stop_times2_values(key, update, message) ==
    [i \in 1..Len(update.stop_time_updates) |->
        [system     |-> system,
         route_id   |-> key.route_id,
         start_date |-> key.start_date,
         trip_id    |-> key.trip_id,
         train_id   |-> key.train_id,
         stop_id    |-> update.stop_time_updates[i].stop_id,
         arrival    |-> update.stop_time_updates[i].arrival,
         departure  |-> update.stop_time_updates[i].departure,
         departure_or_arrival |->
             IF update.stop_time_updates[i].departure # None
             THEN update.stop_time_updates[i].departure
             ELSE update.stop_time_updates[i].arrival,
         time       |-> IF update.timestamp # None
                        THEN Get(update.timestamp)
                        ELSE message.timestamp]]

\* process_trip_update, lines 126-145: the upsert into realtime_stop_times2
upsert_stop_times2(tbl, update, message) ==
    on_conflict_do_update(
        "realtime_stop_times2", tbl,
        stop_times2_values(trip_key(update), update, message),
        <<"system", "route_id", "start_date", "trip_id", "train_id", "stop_id">>,
        <<"arrival", "departure", "departure_or_arrival", "time">>,
        Some("time"))

\* process_trip_update, lines 176-192: the delete of the outdated stops of
\* the trip `key`
delete_outdated(tbl, key, outdated) ==
    {r \in tbl : ~(/\ r.system = system
                   /\ r.route_id = key.route_id
                   /\ r.start_date = key.start_date
                   /\ r.trip_id = key.trip_id
                   /\ r.train_id = key.train_id
                   /\ r.stop_id \in outdated)}

\* process_trip_update, lines 194-221: the upsert of the update's entry in
\* realtime_raw_stop_times.  The wall-clock column update_time of the entry
\* is left out.
upsert_raw_stop_times(tbl, key, update, message) ==
    on_conflict_do_update(
        "realtime_raw_stop_times", tbl,
        <<[system     |-> system,
           route_id   |-> key.route_id,
           start_date |-> key.start_date,
           trip_id    |-> key.trip_id,
           train_id   |-> key.train_id,
           time       |-> message.timestamp,
           stop_times |-> [i \in 1..Len(update.stop_time_updates) |->
                              serialize_stop_time(update.stop_time_updates[i])]]>>,
        <<"system", "route_id", "start_date", "trip_id", "train_id", "time">>,
        <<"stop_times">>, None)

\* the statements of process_trip_update after its first upsert `upsert`:
\* the stores after the upsert (when there are stop times), after the delete
\* (when there are outdated stops) and after the upsert of the entry
\* `raw_upsert`
statements(d, update, upsert, outdated, deleted, raw_upsert) ==
    Trace((IF Len(update.stop_time_updates) > 0
           THEN <<[d EXCEPT !.realtime_stop_times2 = upsert.tbl]>> ELSE <<>>)
            \o (IF outdated # {}
                THEN <<[d EXCEPT !.realtime_stop_times2 = deleted]>> ELSE <<>>)
            \o <<[d EXCEPT !.realtime_stop_times2 = deleted,
                           !.realtime_raw_stop_times = raw_upsert.tbl]>>,
          raw_upsert.ok)

\* process_trip_update from its delete on, after the upsert `upsert` of the
\* stop times; a rejected upsert raises
delete_and_store(d, key, update, message, upsert, outdated) ==
    IF Len(update.stop_time_updates) > 0 /\ ~upsert.ok THEN Trace(<<>>, FALSE)
    ELSE statements(d, update, upsert, outdated,
                    delete_outdated(upsert.tbl, key, outdated),
                    upsert_raw_stop_times(d.realtime_raw_stop_times, key,
                                          update, message))

\* process_trip_update for the trip `key`
process_trip_update_of(d, key, update, message) ==
    delete_and_store(
        d, key, update, message,
        upsert_stop_times2(d.realtime_stop_times2, update, message),
        outdated_stop_ids(previous_stop_times(d.realtime_raw_stop_times, key,
                                              message),
                          update.stop_time_updates, message))

\* MTARealtimeProcessor.process_trip_update on store d: the upsert of the
\* update's stop times, the delete of the outdated stops of the last entry,
\* the upsert of the update's entry in realtime_raw_stop_times
process_trip_update(d, update, message) ==
    process_trip_update_of(d, trip_key(update), update, message)

\* the trace of the statements _write_trip_update executed
executed(d, stmts) ==
    IF stmts = <<>> THEN Trace(<<>>, TRUE)
    ELSE IF ~stmts[1].ok THEN Trace(<<>>, FALSE)
    ELSE Trace(<<[d EXCEPT !.realtime_stop_times = stmts[1].tbl]>>, TRUE)

\* RealtimeWriter._write_trip_update on store d
RealtimeWriter_write_trip_update(d, update, message) ==
    executed(d, write_trip_update(d.realtime_stop_times, update, message))

\* _write_vehicle_position, lines 207-235: the upsert of the position at
\* stop stop_id, of the scheduled trip trip_row or of the descriptor's id
upsert_vehicle_position(tbl, position, message, trip_row, stop_id) ==
    on_conflict_do_update(
        "realtime_vehicle_positions", tbl,
        <<[system      |-> system,
           route_id    |-> Get(position.trip.route_id),
           stop_id     |-> stop_id,
           start_date  |-> position.trip.start_date,
           trip_id     |-> trip_id_of(trip_row, position.trip),
           timestamp   |-> IF position.timestamp # None
                           THEN Get(position.timestamp) ELSE message.timestamp,
           status      |-> position.current_status,
           update_time |-> message.timestamp]>>,
        <<"system", "route_id", "stop_id", "start_date", "trip_id", "timestamp">>,
        <<"status", "update_time">>,
        Some("update_time"))

\* RealtimeWriter._write_vehicle_position of the NYC MTA writer: the
\* statements it executes on realtime_vehicle_positions, or "raise" where
\* its assertion fails.  Without a stop id it returns: either the trip is
\* unknown or the system is the MTA, whose stop sequences it gives up on.
write_vehicle_position(tbl, position, message) ==
    IF ~is_valid_trip_descriptor(position.trip) THEN <<>>
    ELSE IF position.stop_id = None
    THEN (IF position.current_stop_sequence = None THEN "raise" ELSE <<>>)
    ELSE IF ~get_stop_exists(Get(position.stop_id)) THEN <<>>
    ELSE <<upsert_vehicle_position(
               tbl, position, message,
               get_trip_row_from_descriptor(position.trip),
               Get(position.stop_id))>>

\* the trace of the statements _write_vehicle_position executed
executed_position(d, stmts) ==
    IF stmts = "raise" THEN Trace(<<>>, FALSE)
    ELSE IF stmts = <<>> THEN Trace(<<>>, TRUE)
    ELSE IF ~stmts[1].ok THEN Trace(<<>>, FALSE)
    ELSE Trace(<<[d EXCEPT !.realtime_vehicle_positions = stmts[1].tbl]>>, TRUE)

\* RealtimeWriter._write_vehicle_position on store d
RealtimeWriter_write_vehicle_position(d, position, message) ==
    executed_position(
        d, write_vehicle_position(d.realtime_vehicle_positions, position, message))

\* the store a trace leaves when started on d
final(d, trace) == IF trace.states = <<>> THEN d ELSE Last(trace.states)

\* the coroutine of one trip update, of the processor class cls
trip_update_coro(cls, d, update, message) ==
    IF cls = "MTARealtimeProcessor"
    THEN process_trip_update(d, update, message)
    ELSE RealtimeWriter_write_trip_update(d, update, message)

\* a trace followed by the trace `rest` that starts where it ends
then(t, rest) == Trace(t.states \o rest.states, rest.ok)

\* the coroutines process_row gathers, one per trip update of the message,
\* run one after the other in the order of the message from update i on;
\* t is the trace of update i
RECURSIVE gather_from(_, _, _, _)
gather_after(cls, d, message, i, t) ==
    IF ~t.ok THEN t
    ELSE then(t, gather_from(cls, final(d, t), message, i + 1))

gather_from(cls, d, message, i) ==
    IF i > Len(message.trip_updates) THEN Trace(<<>>, TRUE)
    ELSE gather_after(cls, d, message, i,
                      trip_update_coro(cls, d, message.trip_updates[i], message))

\* write_message, lines 33-38: the coroutines of the vehicle positions, run
\* one after the other from position i on; t is the trace of position i
RECURSIVE gather_positions_from(_, _, _)
gather_positions_after(d, message, i, t) ==
    IF ~t.ok THEN t
    ELSE then(t, gather_positions_from(final(d, t), message, i + 1))

gather_positions_from(d, message, i) ==
    IF i > Len(message.vehicle_positions) THEN Trace(<<>>, TRUE)
    ELSE gather_positions_after(
             d, message, i,
             RealtimeWriter_write_vehicle_position(
                 d, message.vehicle_positions[i], message))

\* write_message after the coroutines of the trip updates, whose trace is t
write_positions_after(d, message, t) ==
    IF ~t.ok THEN t
    ELSE then(t, gather_positions_from(final(d, t), message, 1))

\* RealtimeWriter.write_message: the coroutines of the trip updates, then
\* those of the vehicle positions
write_message(d, message) ==
    write_positions_after(
        d, message, gather_from("RealtimeBatchProcessorDEPRECATED", d, message, 1))

\* MTARealtimeProcessor.process_row
MTARealtimeProcessor_process_row(d, row) ==
    gather_from("MTARealtimeProcessor", d,
                fix_feed_mesesage(parse_feed_message(row.feed_id, row.raw)), 1)

\* RealtimeBatchProcessorDEPRECATED.process_row, RealtimeWriter.write_message
RealtimeBatchProcessorDEPRECATED_process_row(d, row) ==
    write_message(d, parse_feed_message(row.feed_id, row.raw))

\* process_row of the processor class cls
process_row(cls, d, row) ==
    IF cls = "MTARealtimeProcessor" THEN MTARealtimeProcessor_process_row(d, row)
    ELSE RealtimeBatchProcessorDEPRECATED_process_row(d, row)

-----------------------------------------------------------------------------
(* The records a process_row logs at WARNING: which message, about which   *)
(* trip, in the snapshot of which header time                              *)

\* logging.warning(msg, trip.trip_id, ..., message.timestamp)
warning(msg, trip, message) ==
    [levelname |-> "WARNING", msg |-> msg, trip_id |-> trip.trip_id,
     time |-> message.timestamp]

\* _is_valid_trip_descriptor (parser lines 98-106, writer lines 241-249)
no_route_warnings(trip, message) ==
    IF trip.route_id = None THEN {warning("No route for trip", trip, message)}
    ELSE {}

\* the warning of a trip that resolves to no scheduled trip and whose route
\* is not replaced (processor lines 61-71, writer lines 47-56 and 146-156)
not_scheduled_warnings(msg, trip, message) ==
    IF /\ get_trip_row_from_descriptor(trip) = None
       /\ ~is_trip_replaced(message, Get(trip.route_id))
    THEN {warning(msg, trip, message)} ELSE {}

\* is_valid_stop_time_update / get_insert_values: the stop exists and has
\* neither arrival nor departure (an unknown stop is logged at DEBUG)
stop_time_warnings(update, message) ==
    {warning("No arrival or departure for stop", update.trip, message) :
        i \in {j \in 1..Len(update.stop_time_updates) :
                  /\ get_stop_exists(update.stop_time_updates[j].stop_id)
                  /\ update.stop_time_updates[j].arrival = None
                  /\ update.stop_time_updates[j].departure = None}}

\* the warnings about one trip update, the same from _fix_trip_update with
\* process_trip_update as from _write_trip_update
trip_update_warnings(update, message) ==
    IF update.trip.route_id = None THEN no_route_warnings(update.trip, message)
    ELSE not_scheduled_warnings("TripUpdate trip  not scheduled or replaced",
                                update.trip, message)
             \cup stop_time_warnings(update, message)

\* the warnings of _write_vehicle_position
vehicle_position_warnings(position, message) ==
    IF position.trip.route_id = None
    THEN no_route_warnings(position.trip, message)
    ELSE not_scheduled_warnings(
             "VehiclePosition trip  not scheduled or replaced",
             position.trip, message)

\* the warnings of a process_row that returns, given the message as
\* process_row decoded it and, for the MTA processor, fixed its replacements
warnings_of(cls, message) ==
    UNION {trip_update_warnings(message.trip_updates[i], message) :
              i \in 1..Len(message.trip_updates)}
      \cup (IF cls = "MTARealtimeProcessor" THEN {}
            ELSE UNION {vehicle_position_warnings(message.vehicle_positions[i],
                                                  message) :
                           i \in 1..Len(message.vehicle_positions)})

\* the warnings of process_row(row)
logged(cls, row) ==
    warnings_of(cls,
                IF cls = "MTARealtimeProcessor"
                THEN fix_trip_replacements(parse_feed_message(row.feed_id, row.raw))
                ELSE parse_feed_message(row.feed_id, row.raw))

-----------------------------------------------------------------------------
(* Live capture (scraper/scraper_job.py)                                   *)

\* scraper_job.MAX_RETRIES
MAX_RETRIES == 5

\* scraper_job.RETRY_INTERVAL, in seconds
RETRY_INTERVAL == 2

\* process_feed_with_retries as gather starts it: in its first attempt.
\* pc is attempting | sleeping | returned | raised; `attempts` counts the
\* calls of process_feed and `waited` lists the sleeps, in seconds; `result`
\* is what it returned and `exception` what it raised.
coroutine ==
    [pc |-> "attempting", retries |-> 0, exceptions |-> <<>>, result |-> None,
     exception |-> None, attempts |-> 1, waited |-> <<>>]

\* a process in which scrape() was not called
not_scraping == [pc |-> "idle", coros |-> << >>, outcomes |-> << >>]

\* process_feed_with_retries, line 68
exhausted_late(retries, max_retries) == retries > max_retries + 1

exhausted(retries, max_retries) == retries > max_retries

\* process_feed_with_retries, line 63: process_feed returned
returns(coro) ==
    [coro EXCEPT !.pc = "returned", !.result = Some(<<None, coro.retries>>)]

\* process_feed_with_retries, lines 64-76, after the exception e is appended
\* and counted: give up with the first exception, or sleep
give_up_or_sleep(coro, max_retries) ==
    IF exhausted(coro.retries, max_retries)
    THEN [coro EXCEPT !.pc = "raised",
                      !.exception = Some(coro.exceptions[1])]
    ELSE [coro EXCEPT !.pc = "sleeping",
                      !.waited = Append(@, RETRY_INTERVAL)]

\* process_feed_with_retries, lines 64-76: process_feed raised e
excepts(coro, e, max_retries) ==
    give_up_or_sleep([coro EXCEPT !.exceptions = Append(@, e),
                                  !.retries = @ + 1],
                     max_retries)

\* process_feed_with_retries, lines 76-77 and 61-63: the sleep is over, the
\* next attempt begins
retries_(coro) == [coro EXCEPT !.pc = "attempting", !.attempts = @ + 1]

\* an insert that replaces the row of its key
process_feed_insert_replacing(tbl, row) ==
    {r \in tbl : ~(/\ r.system = row.system
                   /\ r.feed_id = row.feed_id
                   /\ r.time = row.time)} \cup {row}

\* process_feed, lines 40-55: the insert of the snapshot, which on a row of
\* its key sets update_time only
process_feed_insert(tbl, row) ==
    LET same == {r \in tbl : /\ r.system = row.system
                             /\ r.feed_id = row.feed_id
                             /\ r.time = row.time}
    IN IF same = {} THEN tbl \cup {row}
       ELSE (tbl \ same) \cup {[r EXCEPT !.update_time = row.update_time] :
                                  r \in same}

\* whether a coroutine has ended
ended(coro) == coro.pc \in {"returned", "raised"}

\* a.gatherd over the coroutines: whether the await is over, whether it
\* raises, and the results by feed id.  With return_exceptions a raised
\* exception is the result of its coroutine; without, the first exception
\* ends the await.
gatherd(coros, return_exceptions) ==
    [over    |-> IF return_exceptions
                 THEN \A f \in DOMAIN coros : ended(coros[f])
                 ELSE \/ \A f \in DOMAIN coros : ended(coros[f])
                      \/ \E f \in DOMAIN coros : coros[f].pc = "raised",
     raises  |-> /\ ~return_exceptions
                 /\ \E f \in DOMAIN coros : coros[f].pc = "raised",
     results |-> [f \in DOMAIN coros |-> coros[f]]]

\* scrape, lines 81-87
scrape_gather_raising(coros) == gatherd(coros, FALSE)

scrape_gather(coros) == gatherd(coros, TRUE)

\* scrape, lines 88-97: `e`, the exception of the first feed of FEED_IDS, from
\* the i-th on, whose result is one
RECURSIVE first_exception(_, _)
first_exception(results, i) ==
    IF i > Len(FeedIds) THEN None
    ELSE IF results[FeedIds[i]].pc = "raised"
    THEN results[FeedIds[i]].exception
    ELSE first_exception(results, i + 1)

\* a scrape that ends with `if e is not None: raise e`
scrape_return_raising(results) ==
    LET e == first_exception(results, 1)
    IN IF e # None THEN raised(Get(e)) ELSE [value |-> None]

\* scrape, lines 88-103: how scrape ends after the loop over the results.
\* `e` is assigned and never raised, and scrape has no return statement: it
\* returns None
scrape_return(results) ==
    LET e == first_exception(results, 1)
    IN [value |-> None]

\* scrape, lines 89-103: the record logged for the result of a feed
outcome(feed_id, result) ==
    IF result.pc = "raised"
    THEN [feed_id |-> feed_id, levelname |-> "ERROR",
          msg |-> "Error with NYC MTA feed", retries |-> MAX_RETRIES]
    ELSE [feed_id |-> feed_id, levelname |-> "INFO",
          msg |-> "Successfully processed NYC MTA feed",
          retries |-> Get(result.result)[2]]

-----------------------------------------------------------------------------
(* The replay job: BatchProcessor.main of one of the two processors.       *)
(* The statements of a row take effect together, when its process_row      *)
(* ends; the rows that run concurrently in this model execute at most one  *)
(* statement each.                                                         *)

VARIABLES
    realtime_raw,       \* the realtime_raw table
    self,               \* the processor: its class and its from_time
    db,                 \* the reconciled store
    batch_checkpoints,  \* the batch_checkpoints table, in insertion order
    pc,                 \* idle | fetching | processing | done | failed | stopped
    args,               \* the command line of the current run
    checkpoint,         \* _main's local `checkpoint`
    res,                \* the rows the streamed result has not yet returned
    rows,               \* the page being processed
    rowcount,           \* _main's local `rowcount`
    task,               \* per row of the page: pending | running | done | raised
    query,              \* history: the whole result of this run's query
    started,            \* history: rows whose process_row was entered, this run
    done,               \* history: rows whose process_row returned, this run
    written,            \* history: how many checkpoints this run has inserted
    prev,               \* history: how the run before ended, its command
                        \* line, the rows it started and the page it had
                        \* fetched and not yet checkpointed
    log,                \* the records logged at WARNING and above
    scraper,            \* the live capture: scrape() and its coroutines
    call,               \* a function of the library being called: its name,
                        \* its arguments and, once it has returned, its result
    parser              \* the MTARealtimeParser: the caches of its lookups,
                        \* the futures of the cached calls and the lookups
                        \* made of it

vars == <<parser, call, realtime_raw, self, db, batch_checkpoints, pc, args, checkpoint,
          res, rows, rowcount, task, query, started, done, written, prev,
          log, scraper>>

\* BatchProcessor.groups, as the processor's __init__ sets it
groups == IF self.cls = "MTARealtimeProcessor" THEN <<"feed_id">> ELSE <<>>

\* the command lines: --checkpoint, --limit and --job-name, each optional
Args(cls) == [checkpoint : {None} \cup {Some(c) : c \in Cursors(CheckpointCls(cls))},
              limit      : {None} \cup {Some(n) : n \in 0..MaxLimit},
              job_name   : {None} \cup {Some(j) : j \in JobNames}]

NoArgs == [checkpoint |-> None, limit |-> None, job_name |-> None]

\* read_checkpoint ordered by ascending time: the job's oldest row
read_checkpoint_oldest(cls, tbl, job_name) ==
    LET mine == {i \in 1..Len(tbl) : tbl[i].job_name = job_name}
    IN IF mine = {} THEN None
       ELSE LET oldest == CHOOSE i \in mine :
                              \A j \in mine : tbl[i].time <= tbl[j].time
            IN Some(loads(CheckpointCls(cls), tbl[oldest].checkpoint))

\* BatchProcessor.read_checkpoint: the row of the job with the greatest time
read_checkpoint(cls, tbl, job_name) ==
    LET mine == {i \in 1..Len(tbl) : tbl[i].job_name = job_name}
    IN IF mine = {} THEN None
       ELSE LET latest == CHOOSE i \in mine :
                              \A j \in mine : tbl[j].time <= tbl[i].time
            IN Some(loads(CheckpointCls(cls), tbl[latest].checkpoint))

\* BatchProcessor.write_checkpoint: one insert, stamped with the clock
write_checkpoint(cls, tbl, job_name, cp) ==
    Append(tbl, [job_name   |-> job_name,
                 time       |-> Len(tbl) + 1,
                 checkpoint |-> dumps(CheckpointCls(cls), cp)])

\* _main, lines 187-191: the checkpoint to start after
starting_checkpoint(cls, a, tbl) ==
    IF a.checkpoint # None THEN Some(loads(CheckpointCls(cls), Get(a.checkpoint)))
    ELSE IF a.job_name # None THEN read_checkpoint(cls, tbl, Get(a.job_name))
    ELSE None

\* the ordering columns of the first row of the page
checkpoint_data_first(page) == [col \in Range(cols) |-> page[1][col]]

\* _main, line 210: the ordering columns of the last row of the page
checkpoint_data(page) == [col \in Range(cols) |-> Last(page)[col]]

\* the lookups of MTARealtimeParser that alru_cache decorates
CachedFunctions ==
    {"get_trip_row_from_descriptor", "get_trip_row_from_id",
     "_get_stop_id_from_stop_seq", "get_stop_exists"}

\* MTARealtimeParser.__init__: the caches are empty, no cached call has
\* been made.  A cache lists its entries from the least recently used on.
new_parser ==
    [cache   |-> [fn \in CachedFunctions |-> <<>>],
     futures |-> <<>>,
     lookups |-> <<>>]

\* no function of the library is being called
not_called == [function |-> "", args |-> << >>, result |-> None]

\* no process runs and nothing is stored or logged
NotRunning ==
    /\ db = EmptyStore
    /\ batch_checkpoints = <<>>
    /\ pc = "idle"
    /\ args = NoArgs
    /\ checkpoint = None
    /\ res = <<>>
    /\ rows = <<>>
    /\ rowcount = 0
    /\ task = <<>>
    /\ query = <<>>
    /\ started = {}
    /\ done = {}
    /\ written = 0
    /\ prev = [pc |-> "idle", args |-> NoArgs, started |-> {}, rows |-> <<>>]
    /\ log = {}
    /\ scraper = not_scraping
    /\ parser = new_parser

\* the state of a process that has not run yet
RunInit ==
    /\ NotRunning
    /\ call = not_called

\* _main, lines 173-195: parse the command line, pick the starting
\* checkpoint and execute the query
StartRun(a) ==
    /\ args' = a
    /\ checkpoint' = starting_checkpoint(self.cls, a, batch_checkpoints)
    /\ query' = get_query(self, realtime_raw, checkpoint', a.limit)
    /\ res' = query'
    /\ rows' = <<>>
    /\ task' = <<>>
    /\ rowcount' = 0
    /\ started' = {}
    /\ done' = {}
    /\ written' = 0
    /\ prev' = [pc |-> pc, args |-> args, started |-> started,
                rows |-> IF rows # <<>> /\ checkpoint # Some(checkpoint_data(rows))
                         THEN rows ELSE <<>>]
    /\ pc' = "fetching"
    /\ UNCHANGED <<parser, call, log, scraper, realtime_raw, self, db, batch_checkpoints>>

\* _main, lines 198-201: res.fetchmany(BATCH_SIZE); an empty page ends the run
FetchPage ==
    /\ pc = "fetching"
    /\ rows' = Take(res, BATCH_SIZE)
    /\ res' = Drop(res, BATCH_SIZE)
    /\ task' = [i \in 1..Len(rows') |-> "pending"]
    /\ pc' = IF Len(rows') = 0 THEN "done" ELSE "processing"
    /\ UNCHANGED <<parser, call, log, scraper, realtime_raw, self, db, batch_checkpoints, args, checkpoint,
                   rowcount, query, started, done, written, prev>>

\* process_as_groups, line 234
group_key(row) == [i \in 1..Len(groups) |-> row[groups[i]]]

\* every row of the page gathered at once
group_ready_always(i) == TRUE

\* process_as_groups.process_group: a row is awaited after the rows of its
\* group before it
group_ready(i) ==
    \A j \in 1..(i - 1) :
        group_key(rows[j]) = group_key(rows[i]) => task[j] = "done"

\* the chunk of c.chunk(rows, CHUNK_SIZE) that holds row i
chunk_of(i) ==
    LET chunks == chunk([j \in 1..Len(rows) |-> j], CHUNK_SIZE)
    IN CHOOSE k \in 1..Len(chunks) : i \in Range(chunks[k])

\* every row of the page gathered at once, whatever its chunk
chunk_ready_always(i) == TRUE

\* process_as_chunks: a chunk is gathered after the chunks before it
chunk_ready(i) ==
    \A j \in 1..Len(rows) : chunk_of(j) < chunk_of(i) => task[j] = "done"

\* _main, lines 204-207
row_ready(i) == IF Len(groups) > 0 THEN group_ready(i) ELSE chunk_ready(i)

\* a row's process_row is entered
StartRow(i) ==
    /\ pc = "processing"
    /\ task[i] = "pending"
    /\ row_ready(i)
    /\ task' = [task EXCEPT ![i] = "running"]
    /\ started' = started \cup {rows[i]}
    /\ UNCHANGED <<parser, call, log, scraper, realtime_raw, self, db, batch_checkpoints, pc, args,
                   checkpoint, res, rows, rowcount, query, done, written, prev>>

\* a row's process_row returns: all its statements were executed
FinishRow(i) ==
    /\ pc = "processing"
    /\ task[i] = "running"
    /\ LET trace == process_row(self.cls, db, rows[i])
       IN /\ trace.ok
          /\ db' = final(db, trace)
    /\ log' = log \cup logged(self.cls, rows[i])
    /\ task' = [task EXCEPT ![i] = "done"]
    /\ done' = done \cup {rows[i]}
    /\ UNCHANGED <<parser, call, scraper, realtime_raw, self, batch_checkpoints, pc, args, checkpoint,
                   res, rows, rowcount, query, started, written, prev>>

\* a row's exception kept as its result, as gather(return_exceptions=True)
\* does: the page goes on
RaiseRow_swallowed(i) ==
    /\ pc = "processing"
    /\ task[i] = "running"
    /\ LET trace == process_row(self.cls, db, rows[i])
       IN \E k \in 0..Len(trace.states) :
             db' = IF k = 0 THEN db ELSE trace.states[k]
    /\ \E w \in SUBSET logged(self.cls, rows[i]) : log' = log \cup w
    /\ task' = [task EXCEPT ![i] = "done"]
    /\ UNCHANGED <<parser, call, scraper, realtime_raw, self, batch_checkpoints, pc, args, checkpoint,
                   res, rows, rowcount, query, started, done, written, prev>>

\* a row's process_row ends without returning, after any number of its
\* statements: it raises (a rejected statement, a lost connection), which
\* fails the run, or it is cut short by the failure or the stop of the run
RaiseRow(i) ==
    /\ pc \in {"processing", "failed", "stopped"}
    /\ task[i] = "running"
    /\ LET trace == process_row(self.cls, db, rows[i])
       IN \E k \in 0..Len(trace.states) :
             db' = IF k = 0 THEN db ELSE trace.states[k]
    /\ \E w \in SUBSET logged(self.cls, rows[i]) : log' = log \cup w
    /\ task' = [task EXCEPT ![i] = "raised"]
    /\ pc' = IF pc = "processing" THEN "failed" ELSE pc
    /\ UNCHANGED <<parser, call, scraper, realtime_raw, self, batch_checkpoints, args, checkpoint, res,
                   rows, rowcount, query, started, done, written, prev>>

\* _main, lines 209-218: every row of the page returned; count the page,
\* take its last row as the checkpoint and, under a job name (`if
\* args.job_name:`, which the empty text is not), insert it
CompletePage ==
    /\ pc = "processing"
    /\ \A i \in 1..Len(rows) : task[i] = "done"
    /\ rowcount' = rowcount + Len(rows)
    /\ checkpoint' = Some(checkpoint_data(rows))
    /\ IF args.job_name # None /\ Get(args.job_name) # ""
       THEN /\ batch_checkpoints' =
                   write_checkpoint(self.cls, batch_checkpoints,
                                    Get(args.job_name), Get(checkpoint'))
            /\ written' = written + 1
       ELSE UNCHANGED <<batch_checkpoints, written>>
    /\ pc' = "fetching"
    /\ UNCHANGED <<parser, call, log, scraper, realtime_raw, self, db, args, res, rows, task, query,
                   started, done, prev>>

\* the process is stopped from outside
Stop ==
    /\ pc \in {"fetching", "processing"}
    /\ pc' = "stopped"
    /\ UNCHANGED <<parser, call, log, scraper, realtime_raw, self, db, batch_checkpoints, args, checkpoint,
                   res, rows, rowcount, task, query, started, done, written,
                   prev>>

\* the steps of a run
RunStep ==
    \/ FetchPage
    \/ \E i \in 1..Len(rows) : StartRow(i)
    \/ \E i \in 1..Len(rows) : FinishRow(i)
    \/ \E i \in 1..Len(rows) : RaiseRow(i)
    \/ CompletePage

\* the first run, with any command line
Start ==
    /\ pc = "idle"
    /\ \E a \in Args(self.cls) : StartRun(a)

\* a second run of the same job, from its persisted checkpoint
Resume ==
    /\ pc \in {"done", "failed", "stopped"}
    /\ prev.pc = "idle"
    /\ args.job_name # None
    /\ \E a \in Args(self.cls) :
          /\ a.checkpoint = None
          /\ a.job_name = args.job_name
          /\ StartRun(a)

-----------------------------------------------------------------------------
(* The rows of realtime_raw *)

\* a serialized FeedMessage of header time t
nyct_snapshot(t, trip_replacement_period, entity) ==
    [header |-> [timestamp |-> t,
                 trip_replacement_period |-> trip_replacement_period],
     entity |-> entity]

\* a serialized FeedMessage without the NYCT header extension
snapshot(t, entity) == nyct_snapshot(t, <<>>, entity)

\* an entity that holds a trip update
trip_update_entity(trip_update) ==
    [trip_update |-> Some(trip_update), vehicle |-> None]

\* an entity that holds a vehicle position
vehicle_entity(vehicle) == [trip_update |-> None, vehicle |-> Some(vehicle)]

\* a TripDescriptor as the feed carries it
trip_pb(trip_id, route_id, start_date) ==
    [trip_id |-> trip_id, route_id |-> route_id, start_date |-> start_date]

\* a StopTimeUpdate as the feed carries it
stop_time_update_pb(stop_id, arrival, departure) ==
    [stop_id |-> stop_id, arrival |-> arrival, departure |-> departure]

\* a TripUpdate as the feed carries it
trip_update_of(trip, stop_time_update, timestamp) ==
    [trip |-> trip, stop_time_update |-> stop_time_update,
     timestamp |-> timestamp]

\* google.protobuf.json_format.MessageToJson, read back by json.loads: the
\* names are in lowerCamelCase, 64-bit integers are strings, fields that are
\* not set and empty lists are left out
json_field(name, option) ==
    IF option = None THEN << >> ELSE name :> Get(option)

json_list(name, list) ==
    IF list = << >> THEN << >> ELSE name :> list

json_int64(option) ==
    IF option = None THEN None ELSE Some(ToString(Get(option)))

json_event(option) ==
    IF option = None THEN None ELSE Some([time |-> ToString(Get(option))])

json_trip(trip) ==
    [tripId |-> trip.trip_id, startDate |-> trip.start_date]
        @@ json_field("routeId", trip.route_id)

json_stop_time_update(update) ==
    [stopId |-> update.stop_id]
        @@ json_field("arrival", json_event(update.arrival))
        @@ json_field("departure", json_event(update.departure))

json_trip_update(update) ==
    [trip |-> json_trip(update.trip)]
        @@ json_list("stopTimeUpdate",
                     [i \in DOMAIN update.stop_time_update |->
                         json_stop_time_update(update.stop_time_update[i])])
        @@ json_field("timestamp", json_int64(update.timestamp))

json_vehicle(vehicle) ==
    [trip |-> json_trip(vehicle.trip)]
        @@ json_field("currentStopSequence", vehicle.current_stop_sequence)
        @@ json_field("stopId", vehicle.stop_id)
        @@ json_field("currentStatus", vehicle.current_status)
        @@ json_field("timestamp", json_int64(vehicle.timestamp))

json_entity(entity) ==
    IF entity.trip_update # None
    THEN [tripUpdate |-> json_trip_update(Get(entity.trip_update))]
    ELSE [vehicle |-> json_vehicle(Get(entity.vehicle))]

json_period(period) ==
    [routeId |-> period.route_id,
     replacementPeriod |-> [end |-> ToString(period.end)]]

json_header(header) ==
    [timestamp |-> ToString(header.timestamp)]
        @@ json_list("nyctFeedHeader",
                     [i \in DOMAIN header.trip_replacement_period |->
                         json_period(header.trip_replacement_period[i])])

MessageToJson(feed_message) ==
    [header |-> json_header(feed_message.header)]
        @@ json_list("entity",
                     [i \in DOMAIN feed_message.entity |->
                         json_entity(feed_message.entity[i])])

\* the values of the insert of scraper_job.process_feed, lines 44-51
values_of(feed_id, feed_message, request_time) ==
    [system      |-> system,
     feed_id     |-> feed_id,
     time        |-> feed_message.header.timestamp,
     json        |-> MessageToJson(feed_message),
     raw         |-> feed_message,
     update_time |-> request_time]

\* a row as scraper_job.process_feed inserts it
raw_row(update_time, feed_id, time, entity) ==
    values_of(feed_id, snapshot(time, entity), update_time)

\* snapshots without entities, one per feed and clock reading
PlainRows == {raw_row(t, f, t, <<>>) : t \in 1..MaxTime, f \in Feeds}

\* the processors: RealtimeBatchProcessorDEPRECATED(), MTARealtimeProcessor()
\* and MTARealtimeProcessor(from_time)
Processors ==
    {[cls |-> "RealtimeBatchProcessorDEPRECATED", from_time |-> None],
     [cls |-> "MTARealtimeProcessor", from_time |-> None]}
    \cup {[cls |-> "MTARealtimeProcessor", from_time |-> Some(MaxTime)]}

Init ==
    /\ realtime_raw \in {T \in SUBSET PlainRows : Cardinality(T) <= MaxRows}
    /\ self \in Processors
    /\ RunInit

Next == Start \/ Resume \/ RunStep \/ Stop

Spec == Init /\ [][Next]_vars

-----------------------------------------------------------------------------
(* Replays of snapshots that carry a trip update *)

\* a time after the header time of every snapshot
FarTime == MaxSnapshots + MaxTime + 1

\* the stop lists of the trip updates
StopLists == {<<"S1">>, <<"S2">>, <<"S1", "S2">>, <<"S1", "S1">>}

\* the stop lists of the replayed snapshots
ReplayStopLists == {<<"S1">>, <<"S1", "S2">>}

\* a TripUpdate entity of trip X on route R1, due at its stops at FarTime
trip_update_pb(stop_ids) ==
    [trip             |-> [trip_id    |-> AFA19GEN_1037_Sunday,
                           route_id   |-> Some("R1"),
                           start_date |-> "20200302"],
     stop_time_update |-> [i \in 1..Len(stop_ids) |->
                              [stop_id   |-> stop_ids[i],
                               arrival   |-> Some(FarTime),
                               departure |-> None]],
     timestamp        |-> None]

\* the snapshots of feed 1: n captures at clock readings 1..n, their header
\* times distinct (the key of realtime_raw) and in any order
SnapshotRows ==
    UNION {
      UNION {
        {{raw_row(i, FeedIds[1], h[i],
                  <<trip_update_entity(trip_update_pb(l[i]))>>) : i \in 1..n} :
            l \in [1..n -> ReplayStopLists]} :
          h \in {g \in [1..n -> 1..MaxSnapshots] :
                    \A i, j \in 1..n : i # j => g[i] # g[j]}} :
        n \in 0..MaxSnapshots}

ReplayInit ==
    /\ realtime_raw \in SnapshotRows
    /\ self = [cls |-> "MTARealtimeProcessor", from_time |-> None]
    /\ RunInit

\* the command line of the replays: the named job, over the whole table
ReplayArgs == [checkpoint |-> None, limit |-> None,
               job_name |-> Some(CHOOSE j \in JobNames : TRUE)]

\* the first run
ReplayStart ==
    /\ pc = "idle"
    /\ StartRun(ReplayArgs)

\* the next run, after the first one failed or ended
ReplayResume ==
    /\ pc \in {"done", "failed"}
    /\ prev.pc = "idle"
    /\ StartRun(ReplayArgs)

ReplayNext == ReplayStart \/ ReplayResume \/ RunStep

ReplaySpec == ReplayInit /\ [][ReplayNext]_vars

-----------------------------------------------------------------------------
(* The store under process_row calls in any order and number, as runs      *)
(* from any checkpoint make them                                           *)

\* snapshots of feed 1 of distinct header times, each captured at its header
\* time
WriteRows ==
    UNION {{{raw_row(t, FeedIds[1], t,
                     <<trip_update_entity(trip_update_pb(l[t]))>>) : t \in T} :
               l \in [T -> StopLists]} :
             T \in SUBSET (1..MaxSnapshots)}

WriteInit ==
    /\ realtime_raw \in WriteRows
    /\ self \in {p \in Processors : p.from_time = None}
    /\ RunInit

\* one process_row call that returns; `rows` holds the row it processed
ProcessRow(row) ==
    /\ LET trace == process_row(self.cls, db, row)
       IN /\ trace.ok
          /\ db' = final(db, trace)
    /\ log' = log \cup logged(self.cls, row)
    /\ rows' = <<row>>
    /\ UNCHANGED <<parser, call, scraper, realtime_raw, self, batch_checkpoints, pc, args, checkpoint,
                   res, rowcount, task, query, started, done, written, prev>>

WriteNext == \E row \in realtime_raw : ProcessRow(row)

WriteSpec == WriteInit /\ [][WriteNext]_vars

-----------------------------------------------------------------------------
(* One run of the live capture: scraper_job.scrape over the feeds          *)

\* what the capture leaves alone
process_vars == <<self, db, batch_checkpoints, pc, args, checkpoint, res, rows,
                  rowcount, task, query, started, done, written, prev>>

replay_vars == <<parser, call, process_vars>>

\* the exceptions of process_feed: of the download, and its own of line 26
Exceptions == {"ClientError", "FeedMessage not initialized"}

\* scrape, lines 81-87: the coroutines of all feeds are gathered
Scrape ==
    /\ scraper.pc = "idle"
    /\ scraper' = [scraper EXCEPT !.pc = "gathering",
                                  !.coros = [f \in Feeds |-> coroutine]]
    /\ UNCHANGED <<log, realtime_raw, replay_vars>>

\* an attempt of feed f returns: its snapshot, of header time t, is inserted
AttemptReturns(f, t) ==
    /\ scraper.pc = "gathering"
    /\ scraper.coros[f].pc = "attempting"
    /\ realtime_raw' = process_feed_insert(realtime_raw, raw_row(t, f, t, <<>>))
    /\ scraper' = [scraper EXCEPT !.coros[f] = returns(@)]
    /\ UNCHANGED <<log, replay_vars>>

\* an attempt of feed f raises e, which is logged and counted
AttemptRaises(f, e) ==
    /\ scraper.pc = "gathering"
    /\ scraper.coros[f].pc = "attempting"
    /\ scraper' = [scraper EXCEPT !.coros[f] = excepts(@, e, MAX_RETRIES)]
    /\ log' = log
                \cup {[levelname |-> "WARNING", msg |-> "Error fetching feed",
                       feed_id |-> f]}
                \cup (IF scraper'.coros[f].pc = "raised"
                      THEN {[levelname |-> "ERROR",
                             msg |-> "Unable to parse NYC MTA feed, giving up now",
                             feed_id |-> f]}
                      ELSE {})
    /\ UNCHANGED <<realtime_raw, replay_vars>>

\* the sleep of feed f is over
Retry(f) ==
    /\ scraper.pc = "gathering"
    /\ scraper.coros[f].pc = "sleeping"
    /\ scraper' = [scraper EXCEPT !.coros[f] = retries_(@)]
    /\ UNCHANGED <<log, realtime_raw, replay_vars>>

\* a step of the coroutine of feed f
CoroStep(f) ==
    \/ \E t \in 1..MaxTime : AttemptReturns(f, t)
    \/ \E e \in Exceptions : AttemptRaises(f, e)
    \/ Retry(f)

\* the outcomes of the feeds from the i-th on, in the order of FEED_IDS
RECURSIVE outcomes_from(_, _)
outcomes_from(results, i) ==
    IF i > Len(FeedIds) THEN <<>>
    ELSE <<outcome(FeedIds[i], results[FeedIds[i]])>>
             \o outcomes_from(results, i + 1)

\* scrape, lines 81-103: the await of gatherd is over; one record is logged
\* per feed and scrape returns, or the exception of the await leaves scrape
Collect ==
    /\ scraper.pc = "gathering"
    /\ scrape_gather(scraper.coros).over
    /\ IF \/ scrape_gather(scraper.coros).raises
          \/ raises(scrape_return(scrape_gather(scraper.coros).results))
       THEN /\ scraper' = [scraper EXCEPT !.pc = "raised"]
            /\ log' = log
       ELSE /\ scraper' = [scraper EXCEPT
                              !.pc = "done",
                              !.outcomes = outcomes_from(
                                  scrape_gather(scraper.coros).results, 1)]
            /\ log' = log \cup {[levelname |-> "ERROR", msg |-> o.msg,
                                 feed_id |-> o.feed_id] :
                                   o \in {q \in Range(scraper'.outcomes) :
                                             q.levelname = "ERROR"}}
    /\ UNCHANGED <<realtime_raw, replay_vars>>

\* the table is empty, or holds a snapshot of the first feed that an earlier
\* run captured
ScrapeInit ==
    /\ realtime_raw \in {{}, {raw_row(1, FeedIds[1], 1, <<>>)}}
    /\ self = [cls |-> "MTARealtimeProcessor", from_time |-> None]
    /\ RunInit

ScrapeNext == Scrape \/ (\E f \in Feeds : CoroStep(f)) \/ Collect

\* the event loop runs every coroutine that can go on: a download ends (the
\* HTTP client gives up after its total timeout), a sleep ends, and the
\* await of the gathered coroutines returns when they have ended
ScrapeSpec ==
    /\ ScrapeInit
    /\ [][ScrapeNext]_vars
    /\ \A f \in Feeds : WF_vars(CoroStep(f))
    /\ WF_vars(Collect)

-----------------------------------------------------------------------------
(* Snapshots whose header lists trip replacement periods *)

\* the routes the backfill rules read or write
ReplacedRoutes == {"6", "6X", "7", "7X", "S", "GS"}

\* the lists of at most n trip replacement periods
RECURSIVE PeriodLists(_)
PeriodLists(n) ==
    IF n = 0 THEN {<<>>}
    ELSE PeriodLists(n - 1)
           \cup {Append(l, [route_id |-> r, end |-> t]) :
                    l \in {k \in PeriodLists(n - 1) : Len(k) = n - 1},
                    r \in ReplacedRoutes, t \in 1..MaxTime}

\* a snapshot of header time t whose header lists the periods and that
\* holds the entities
nyct_row(t, feed_id, periods, entity) ==
    values_of(feed_id, nyct_snapshot(t, periods, entity), t)

\* one snapshot, with a trip update without stop times of a trip that is
\* not scheduled, on a route that the feed lists only under another name
ReplacementRows ==
    {{nyct_row(t, f, periods,
               <<trip_update_entity(
                     trip_update_of(
                         trip_pb(Short_090000_6_N01R, Some(r), "20200302"),
                         <<>>, None))>>)} :
        t \in 1..MaxTime, f \in Feeds, periods \in PeriodLists(MaxPeriods),
        r \in {"6X", "GS"}}

ReplacementInit ==
    /\ realtime_raw \in ReplacementRows
    /\ self \in {p \in Processors : p.from_time = None}
    /\ RunInit

ReplacementSpec == ReplacementInit /\ [][WriteNext]_vars

-----------------------------------------------------------------------------
(* Snapshots with one trip update to reconcile *)

\* the stop time events of a feed: at a stop of the schedule or at one it
\* does not have, with an arrival, a departure or neither
StopTimeEvents ==
    {stop_time_update_pb(stop_id, times[1], times[2]) :
        stop_id \in stops \cup {"S9"},
        times \in {<<None, None>>, <<Some(FarTime), None>>,
                   <<None, Some(FarTime)>>}}

\* the lists of at most n stop time events
RECURSIVE EventLists(_)
EventLists(n) ==
    IF n = 0 THEN {<<>>}
    ELSE EventLists(n - 1)
           \cup {Append(l, e) :
                    l \in {k \in EventLists(n - 1) : Len(k) = n - 1},
                    e \in StopTimeEvents}

\* one snapshot with one trip update of trip X: its route_id is R1, empty
\* or absent, and the header lists no replacement period or one whose
\* route_id reads as the empty string
FixRows ==
    {{nyct_row(t, FeedIds[1], periods,
               <<trip_update_entity(
                     trip_update_of(trip_pb(AFA19GEN_1037_Sunday, route_id,
                                            "20200302"),
                                    events, None))>>)} :
        t \in 1..MaxTime,
        periods \in {<<>>} \cup {<<[route_id |-> "", end |-> end]>> :
                                    end \in 1..MaxTime},
        route_id \in {Some("R1"), Some(""), None},
        events \in EventLists(MaxEvents)}

FixInit ==
    /\ realtime_raw \in FixRows
    /\ self \in {p \in Processors : p.from_time = None}
    /\ RunInit

FixSpec == FixInit /\ [][WriteNext]_vars

-----------------------------------------------------------------------------
(* Snapshots with a vehicle position *)

\* a VehiclePosition as the feed carries it
vehicle_pb(trip, current_stop_sequence, stop_id, current_status, timestamp) ==
    [trip |-> trip, current_stop_sequence |-> current_stop_sequence,
     stop_id |-> stop_id, current_status |-> current_status,
     timestamp |-> timestamp]

\* the vehicle positions of trip X: with or without a route, a stop id (of
\* a stop that exists or not), a stop sequence, a status and a timestamp
VehiclePositions ==
    {vehicle_pb(trip_pb(AFA19GEN_1037_Sunday, route_id, "20200302"),
                current_stop_sequence, stop_id, current_status, timestamp) :
        route_id \in {Some("R1"), None},
        current_stop_sequence \in {None, Some(1)},
        stop_id \in {None, Some("S1"), Some("S9")},
        current_status \in {None, Some("STOPPED_AT")},
        timestamp \in {None, Some(1)}}

\* one snapshot of feed 1 with one vehicle position
VehicleRows ==
    {{raw_row(t, FeedIds[1], t, <<vehicle_entity(v)>>)} :
        t \in 1..MaxSnapshots, v \in VehiclePositions}

VehicleInit ==
    /\ realtime_raw \in VehicleRows
    /\ self \in {p \in Processors : p.from_time = None}
    /\ RunInit

VehicleSpec == VehicleInit /\ [][WriteNext]_vars

-----------------------------------------------------------------------------
(* Snapshots whose trip is to be resolved *)

\* the trip ids of the feed: an id of the trips table, the short ids of the
\* realtime feed, and an id of neither kind
Short_010600_1_S03R ==
    <<"0", "1", "0", "6", "0", "0", "_", "1", ".", ".", "S", "0", "3", "R">>
Short_010600_1_S04R ==
    <<"0", "1", "0", "6", "0", "0", "_", "1", ".", ".", "S", "0", "4", "R">>
Short_010600_1_S ==
    <<"0", "1", "0", "6", "0", "0", "_", "1", ".", ".", "S">>
Nonsense == <<"n", "o", "n", "s", "e", "n", "s", "e">>
FeedTripIds == {AFA19GEN_1037_Sunday, Short_010600_1_S03R,
                Short_010600_1_S04R, Short_010600_1_S, Nonsense}

\* one snapshot of feed 1 with one trip update on route R1 that has one
\* arrival
ResolveRows ==
    {{raw_row(t, FeedIds[1], t,
              <<trip_update_entity(
                    trip_update_of(
                        trip_pb(trip_id, Some("R1"), start_date),
                        <<stop_time_update_pb("S1", Some(FarTime), None)>>,
                        None))>>)} :
        t \in 1..MaxSnapshots, trip_id \in FeedTripIds,
        start_date \in {"20200302", "20200306", "20200307", "20200308"}}

ResolveInit ==
    /\ realtime_raw \in ResolveRows
    /\ self \in {p \in Processors : p.from_time = None}
    /\ RunInit

ResolveSpec == ResolveInit /\ [][WriteNext]_vars

-----------------------------------------------------------------------------
(* Two snapshots that differ in their header time only *)

\* the trip updates of trip X on route R1 with one stop time event that has
\* a departure, at FarTime
SingleEvents ==
    {trip_update_of(trip_pb(AFA19GEN_1037_Sunday, Some("R1"), start_date),
                    <<stop_time_update_pb(stop_id, arrival, Some(FarTime))>>,
                    timestamp) :
        start_date \in {"20200302", "20200307", "20200308"},
        stop_id \in stops,
        arrival \in {None, Some(FarTime)},
        timestamp \in {None, Some(MaxSnapshots)}}

\* two snapshots of feed 1 with the same trip update
EndToEndRows ==
    {{raw_row(t, FeedIds[1], t, <<trip_update_entity(e)>>) : t \in {t1, t2}} :
        t1 \in 1..MaxSnapshots, t2 \in 1..MaxSnapshots, e \in SingleEvents}
    \ {{}}

EndToEndInit ==
    /\ realtime_raw \in {T \in EndToEndRows : Cardinality(T) = 2}
    /\ self \in {p \in Processors : p.from_time = None}
    /\ RunInit

EndToEndSpec == EndToEndInit /\ [][WriteNext]_vars

-----------------------------------------------------------------------------
(* Properties of the replay job *)

\* the ordering key of a row, as a checkpoint holds it
KeyOf(row) == [update_time |-> row.update_time, feed_id |-> row.feed_id]

\* key a is at or before key b
KeyLE(a, b) == ~TupleGT(a, b)

\* the checkpoints this run has inserted, and those it found
ThisRun ==
    SubSeq(batch_checkpoints, Len(batch_checkpoints) - written + 1,
           Len(batch_checkpoints))

FoundAtStart == SubSeq(batch_checkpoints, 1, Len(batch_checkpoints) - written)

\* the cursor of the k-th checkpoint of this run
Cursor(k) == loads(CheckpointCls(self.cls), ThisRun[k].checkpoint)

\* the k-th page of this run's query result
Page(k) ==
    SubSeq(query, (k - 1) * BATCH_SIZE + 1,
           IF k * BATCH_SIZE < Len(query) THEN k * BATCH_SIZE ELSE Len(query))

\* the cursor this run started after, or None
StartCursor == starting_checkpoint(self.cls, args, FoundAtStart)

\* C1: a checkpoint is inserted only by a page all of whose rows have
\* returned from process_row, and it is that page's; a step into or within
\* Failed inserts none, so that the job's latest checkpoint in a failed run
\* is still that of the last page that completed.
C1_CheckpointOnlyAfterFullPage ==
    /\ [](pc = "failed" /\ written > 0 =>
            /\ read_checkpoint(self.cls, batch_checkpoints, Get(args.job_name))
                   = Some(KeyOf(Last(Page(written))))
            /\ Range(Page(written)) \subseteq done
            /\ \E i \in 1..Len(rows) : rows[i] \notin done)
    /\ [][/\ batch_checkpoints' # batch_checkpoints =>
               /\ pc = "processing"
               /\ Len(rows) > 0
               /\ Range(rows) \subseteq done
               /\ Len(batch_checkpoints') = Len(batch_checkpoints) + 1
               /\ SubSeq(batch_checkpoints', 1, Len(batch_checkpoints))
                      = batch_checkpoints
               /\ loads(CheckpointCls(self.cls), Last(batch_checkpoints').checkpoint)
                      = KeyOf(Last(rows))
          /\ pc' = "failed" => batch_checkpoints' = batch_checkpoints]_vars

\* a run fails on its second page, the first one checkpointed
C1_Witness ==
    /\ pc = "failed"
    /\ written > 0
    /\ \E i \in 1..Len(rows) : task[i] = "raised"

\* C2: every checkpoint persisted under a job name holds the ordering key
\* of the last row of the page that just completed, and every row of the
\* query result at or before that key has returned from process_row.
C2_CursorIsLastRowOfPage ==
    \A k \in 1..written :
        /\ Cursor(k) = KeyOf(Last(Page(k)))
        /\ ThisRun[k].job_name = Get(args.job_name)
        /\ \A r \in Range(query) :
              KeyLE(RowKey(r), as_list(Cursor(k), cols)) => r \in done

\* a run has checkpointed two pages
C2_Witness == written >= 2 /\ Len(Page(1)) > 1

\* the number of pages of this run all of whose rows have returned
PagesProcessed ==
    Cardinality({k \in 1..Len(query) :
                    Page(k) # <<>> /\ Range(Page(k)) \subseteq done})

\* C3: a run under a job name has inserted one checkpoint per non-empty
\* page it has processed (the page in hand is checkpointed by the step that
\* follows its last row), none without a job name, and the cursors it has
\* inserted strictly increase in the order of (update_time, feed_id).
C3_OneCheckpointPerPage ==
    /\ args.job_name = None => written = 0 /\ batch_checkpoints = FoundAtStart
    /\ args.job_name # None =>
          /\ pc \in {"fetching", "done"} => written = PagesProcessed
          /\ written <= PagesProcessed
          /\ PagesProcessed <= written + 1
    /\ \A j, k \in 1..written :
          j < k => TupleGT(as_list(Cursor(k), cols), as_list(Cursor(j), cols))

\* a named run has ended after two pages
C3_Witness == pc = "done" /\ written >= 2

\* C4: a run that starts after cursor C, given as --checkpoint or read from
\* batch_checkpoints, enters process_row only for rows whose key is greater
\* than C.
C4_ResumeIsExclusive ==
    StartCursor # None =>
        \A r \in started : TupleGT(RowKey(r), as_list(Get(StartCursor), cols))

\* a run resumed from a persisted cursor has processed a row while the
\* table holds the row of the cursor and an earlier one
C4_Witness ==
    /\ args.checkpoint = None
    /\ StartCursor # None
    /\ started # {}
    /\ \E r \in realtime_raw : KeyOf(r) = Get(StartCursor)
    /\ \E r \in realtime_raw : TupleGT(as_list(Get(StartCursor), cols), RowKey(r))

\* C5: when a named job is stopped at any point and run again from its
\* persisted checkpoint, the rows both runs enter process_row for all lie in
\* the one page the stopped run had in hand, at most BATCH_SIZE rows, and
\* the second run, once done, has processed every row of the table whose
\* key is greater than the persisted checkpoint.
C5_AtMostOnePageRedone ==
    prev.pc = "stopped" =>
        /\ (prev.started \cap started) \subseteq Range(prev.rows)
        /\ Cardinality(prev.started \cap started) <= BATCH_SIZE
        /\ pc = "done" /\ args.limit = None /\ StartCursor # None =>
              \A r \in realtime_raw :
                  TupleGT(RowKey(r), as_list(Get(StartCursor), cols)) => r \in done

\* a job stopped in its second page and resumed from the checkpoint of the
\* first has redone a row and is done
C5_Witness ==
    /\ prev.pc = "stopped"
    /\ pc = "done"
    /\ args.limit = None
    /\ StartCursor # None
    /\ prev.started \cap started # {}

\* what is left of a run: rows to fetch, rows to enter, rows to leave, and
\* the step that follows the page
Measure ==
    4 * Len(res)
    + 2 * Cardinality({i \in 1..Len(task) : task[i] = "pending"})
    + Cardinality({i \in 1..Len(task) : task[i] = "running"})
    + (IF pc = "processing" THEN 2 ELSE IF pc = "fetching" THEN 1 ELSE 0)

\* C6: a run over a finite table terminates: while it is fetching or
\* processing it can take a step, and every step brings it closer to Done
\* or Failed.  The fetch that ends it returns a page smaller than
\* BATCH_SIZE, after a page smaller than BATCH_SIZE no row is left to
\* fetch, and under --limit it never processes more rows than the limit.
C6_TerminatesWithinLimit ==
    /\ [](/\ pc \in {"fetching", "processing"} => ENABLED RunStep
          /\ pc = "done" => Len(rows) < BATCH_SIZE /\ res = <<>>
          /\ pc = "processing" /\ Len(rows) < BATCH_SIZE => res = <<>>
          /\ args.limit # None =>
                /\ Cardinality(started) <= Get(args.limit)
                /\ rowcount <= Get(args.limit))
    /\ [][RunStep => Measure' < Measure]_vars

\* a run under --limit is done, having processed as many rows as the limit
\* and fewer than the table holds
C6_Witness ==
    /\ pc = "done"
    /\ args.limit # None
    /\ args.checkpoint = None
    /\ Get(args.limit) > 0
    /\ Cardinality(done) = Get(args.limit)
    /\ Cardinality(realtime_raw) > Get(args.limit)

\* C7: under a grouping key a row enters process_row only after every
\* earlier row of the run with the same group key has returned from it,
\* in its page and in the pages before.
C7_GroupsInOrder ==
    Len(groups) > 0 =>
        \A i \in 1..Len(query) :
            query[i] \in started =>
                \A j \in 1..(i - 1) :
                    query[j].feed_id = query[i].feed_id => query[j] \in done

\* group keys A, B, A: the second A row and the B row are in process_row at
\* once, the first A row has returned
C7_Witness ==
    /\ Len(groups) > 0
    /\ \E i, j, k \in 1..Len(rows) :
          /\ i < j /\ j < k
          /\ rows[i].feed_id = rows[k].feed_id
          /\ rows[i].feed_id # rows[j].feed_id
          /\ task[i] = "done"
          /\ task[j] = "running"
          /\ task[k] = "running"

-----------------------------------------------------------------------------
(* Properties of the writes *)

\* the message a processor of class cls makes of a row
message_of(cls, row) ==
    IF cls = "MTARealtimeProcessor"
    THEN fix_feed_mesesage(parse_feed_message(row.feed_id, row.raw))
    ELSE parse_feed_message(row.feed_id, row.raw)

\* table `after` is table `before` with the rows `incoming` upserted under
\* the freshness column `fresh`: a stored row with an incoming row of its
\* key is that incoming row if the incoming freshness is at or after its
\* own and is untouched if it is older; every other stored row is
\* untouched; the rows that are new are incoming rows
ConditionalUpsert(before, after, incoming, key, fresh) ==
    /\ \A old \in before :
          LET same == {v \in incoming : key_of(v, key) = key_of(old, key)}
          IN IF same = {} THEN old \in after
             ELSE \A v \in same :
                     IF v[fresh] >= old[fresh]
                     THEN v \in after /\ (old # v => old \notin after)
                     ELSE old \in after
    /\ \A new \in after : new \in before \/ new \in incoming
    /\ \A x, y \in after : key_of(x, key) = key_of(y, key) => x = y

\* every incoming row is older than the stored row of its key
AllOlder(before, incoming, key, fresh) ==
    \A v \in incoming :
        \E old \in before : key_of(old, key) = key_of(v, key) /\ old[fresh] > v[fresh]

\* C8: the upsert of the stop times of a trip update, by either processor
\* and on any store the processor has produced, replaces a stored row only
\* by an incoming row of its key whose freshness is at or after the stored
\* one; an older incoming row leaves the stored row as it is, and a
\* statement of older rows only is not rejected.
C8_ConditionalUpsert ==
    \A row \in realtime_raw :
        LET message == message_of(self.cls, row)
        IN \A n \in 1..Len(message.trip_updates) :
              LET update == message.trip_updates[n]
              IN IF self.cls = "MTARealtimeProcessor"
                 THEN LET before   == db.realtime_stop_times2
                          incoming == Range(stop_times2_values(trip_key(update), update,
                                                                   message))
                          key      == <<"system", "route_id", "start_date",
                                        "trip_id", "train_id", "stop_id">>
                          stmt     == upsert_stop_times2(before, update, message)
                      IN /\ stmt.ok => ConditionalUpsert(before, stmt.tbl,
                                                         incoming, key, "time")
                         /\ AllOlder(before, incoming, key, "time") =>
                                stmt.ok /\ stmt.tbl = before
                 ELSE LET before   == db.realtime_stop_times
                          incoming == Range(insert_values(update, message))
                          key      == <<"system", "route_id", "stop_id",
                                        "start_date", "trip_id">>
                          stmts    == write_trip_update(before, update, message)
                      IN /\ Len(stmts) = 1
                         /\ stmts[1].ok => ConditionalUpsert(before, stmts[1].tbl,
                                                             incoming, key,
                                                             "update_time")
                         /\ AllOlder(before, incoming, key, "update_time") =>
                                stmts[1].ok /\ stmts[1].tbl = before

\* the snapshot processed last is older than a stored stop time of its trip
\* update, under each of the two processors' tables
C8_Witness ==
    /\ Len(rows) = 1
    /\ \/ /\ self.cls = "MTARealtimeProcessor"
          /\ \E old \in db.realtime_stop_times2 :
                /\ old.time > rows[1].time
                /\ \E i \in 1..Len(Get(rows[1].raw.entity[1].trip_update).stop_time_update) :
                      Get(rows[1].raw.entity[1].trip_update).stop_time_update[i].stop_id = old.stop_id
       \/ /\ self.cls = "RealtimeBatchProcessorDEPRECATED"
          /\ \E old \in db.realtime_stop_times :
                /\ old.update_time > rows[1].time
                /\ \E i \in 1..Len(Get(rows[1].raw.entity[1].trip_update).stop_time_update) :
                      Get(rows[1].raw.entity[1].trip_update).stop_time_update[i].stop_id = old.stop_id

\* the store after a process_row call that returns
processed(cls, d, row) == final(d, process_row(cls, d, row))

\* C9: processing a snapshot a second time, with another snapshot or none
\* processed in between, leaves the persisted rows as they were before the
\* second time.
C9_ProcessRowIdempotent ==
    \A r, q \in realtime_raw :
        LET once       == processed(self.cls, db, r)
            between    == processed(self.cls, once, q)
            twice      == processed(self.cls, between, r)
            twice_in_a_row == processed(self.cls, once, r)
        IN /\ process_row(self.cls, db, r).ok
           /\ process_row(self.cls, once, q).ok
           /\ process_row(self.cls, between, r).ok
           /\ process_row(self.cls, once, r).ok
           => twice = between /\ twice_in_a_row = once

\* the store a run leaves that processes the rows once, in the order of the
\* query, none of them failing
RECURSIVE CleanRun(_, _, _)
CleanRun(cls, d, ordered) ==
    IF ordered = <<>> THEN d
    ELSE CleanRun(cls, processed(cls, d, Head(ordered)), Tail(ordered))

\* C10: when a run has failed in a page after writing rows of it and the
\* next run has processed the page again from the previous checkpoint and
\* ended, the reconciled stop times are those of a run that processed the
\* same snapshots once and without failure.
C10_RetryEqualsCleanRun ==
    /\ pc = "done"
    /\ prev.pc = "failed"
    /\ prev.started # {}
    => db.realtime_stop_times2
           = CleanRun(self.cls, EmptyStore, order_by(realtime_raw)).realtime_stop_times2

-----------------------------------------------------------------------------
(* End to end: one stop time event, written from two snapshots *)

\* the persisted stop times of the processor
StopTimes(d) ==
    IF self.cls = "MTARealtimeProcessor" THEN d.realtime_stop_times2
    ELSE d.realtime_stop_times

\* the snapshot of the later header time, and the one of the earlier
Newer == CHOOSE row \in realtime_raw : \A q \in realtime_raw : q.time <= row.time

Older == CHOOSE row \in realtime_raw : \A q \in realtime_raw : row.time <= q.time

\* the one stop time event of a snapshot
EventOf(row) == Get(row.raw.entity[1].trip_update).stop_time_update[1]

\* the table is exactly one row, of route R1, trip X, the stop of the event
\* and the departure of the event
ExactlyTheEvent(tbl, event) ==
    \E r \in tbl :
        /\ tbl = {r}
        /\ r.route_id = "R1" /\ r.trip_id = AFA19GEN_1037_Sunday
        /\ r.stop_id = event.stop_id
        /\ r.departure = event.departure

\* the later snapshot has been written
NewerWritten ==
    IF self.cls = "MTARealtimeProcessor"
    THEN \E e \in db.realtime_raw_stop_times : e.time = Newer.time
    ELSE \E r \in db.realtime_stop_times : r.update_time = Newer.time

\* C11: a snapshot with one trip update of trip X on route R1 with a single
\* stop time event (a departure, at a stop that exists) is persisted as
\* exactly one stop time row (R1, stop, X) with that departure, and writing
\* afterwards the same snapshot with an earlier header time does not alter
\* the stored row.
C11_EndToEnd ==
    [][/\ rows' = <<Newer>> => ExactlyTheEvent(StopTimes(db'), EventOf(Newer))
       /\ NewerWritten /\ rows' = <<Older>> =>
              /\ StopTimes(db') = StopTimes(db)
              /\ ExactlyTheEvent(StopTimes(db'), EventOf(Newer))]_vars

\* the later snapshot was written and the earlier one after it: the row of
\* stop S1 with a departure and no arrival is stored
C11_Witness ==
    /\ realtime_raw \in EndToEndRows
    /\ rows = <<Older>>
    /\ NewerWritten
    /\ EventOf(Newer).stop_id = "S1" /\ EventOf(Newer).arrival = None
    /\ ExactlyTheEvent(StopTimes(db), EventOf(Newer))

-----------------------------------------------------------------------------
(* The rows of one upsert *)

\* the rows of the upsert statement a processor issues for a trip update
upsert_values(cls, update, message) ==
    IF cls = "MTARealtimeProcessor"
    THEN stop_times2_values(trip_key(update), update, message)
    ELSE insert_values(update, message)

\* the conflict key of that statement
conflict_key(cls) ==
    IF cls = "MTARealtimeProcessor"
    THEN <<"system", "route_id", "start_date", "trip_id", "train_id", "stop_id">>
    ELSE <<"system", "route_id", "stop_id", "start_date", "trip_id">>

\* C12: the upsert statement issued for a trip update holds at most one row
\* per conflict key: of the stop time events of one key, one is kept.
C12_OneRowPerConflictKey ==
    \A row \in realtime_raw :
        LET message == message_of(self.cls, row)
        IN \A n \in 1..Len(message.trip_updates) :
              LET values == upsert_values(self.cls, message.trip_updates[n], message)
              IN \A i, j \in 1..Len(values) :
                     i # j => key_of(values[i], conflict_key(self.cls))
                                  # key_of(values[j], conflict_key(self.cls))

-----------------------------------------------------------------------------
(* Properties of the live capture *)

\* the attempts of a coroutine are bounded, its sleeps are one of
\* RETRY_INTERVAL before each attempt but the first, it returns with the
\* count of the failed attempts, and it raises its first exception once
\* MAX_RETRIES retries have failed
BoundedRetries(coro) ==
    /\ coro.attempts <= MAX_RETRIES + 1
    /\ coro.retries = Len(coro.exceptions)
    /\ coro.waited = [i \in 1..Len(coro.waited) |-> RETRY_INTERVAL]
    /\ coro.pc = "attempting" =>
           coro.attempts = coro.retries + 1 /\ Len(coro.waited) = coro.retries
    /\ coro.pc = "sleeping" =>
           /\ coro.attempts = coro.retries /\ Len(coro.waited) = coro.retries
           /\ coro.retries <= MAX_RETRIES
    /\ coro.pc = "returned" =>
           /\ coro.attempts = coro.retries + 1
           /\ coro.result = Some(<<None, coro.retries>>)
    /\ coro.pc = "raised" =>
           /\ coro.attempts = MAX_RETRIES + 1
           /\ coro.retries = MAX_RETRIES + 1
           /\ coro.exception = Some(coro.exceptions[1])

\* the coroutine of feed f has returned or raised
Terminated(f) == f \in DOMAIN scraper.coros /\ ended(scraper.coros[f])

\* C13: process_feed_with_retries makes at most MAX_RETRIES + 1 attempts,
\* with a sleep of RETRY_INTERVAL between consecutive attempts, and always
\* terminates: it returns at its first successful attempt with the count of
\* the failed ones, or raises once its retries are exhausted.
C13_BoundedRetries ==
    /\ [](\A f \in DOMAIN scraper.coros : BoundedRetries(scraper.coros[f]))
    /\ \A f \in Feeds : (scraper.pc = "gathering") ~> Terminated(f)

\* one feed has returned after failed attempts and the other has raised
\* after MAX_RETRIES retries
C13_Witness ==
    /\ scraper.pc = "gathering"
    /\ \E f \in Feeds :
          /\ scraper.coros[f].pc = "returned"
          /\ scraper.coros[f].retries > 0
    /\ \E f \in Feeds :
          /\ scraper.coros[f].pc = "raised"
          /\ Len(scraper.coros[f].waited) = MAX_RETRIES

\* the snapshot of feed f is in realtime_raw
Captured(f) == \E row \in realtime_raw : row.feed_id = f

\* C14: the feeds are independent failure domains.  A feed that has raised
\* never ends the run of scrape and never stops the coroutine of another
\* feed, which goes on attempting or sleeping and whose snapshot, once its
\* attempt returns, is stored; and a run of scrape logs exactly one outcome
\* per feed of FEED_IDS, an error for a feed that raised and a success for
\* one that returned.
C14_IndependentFeeds ==
    /\ scraper.pc # "raised"
    /\ scraper.pc = "gathering" =>
           \A f \in Feeds :
               /\ ~ended(scraper.coros[f]) => ENABLED CoroStep(f)
               /\ scraper.coros[f].pc = "returned" => Captured(f)
    /\ scraper.pc = "done" =>
           /\ Len(scraper.outcomes) = Len(FeedIds)
           /\ \A i \in 1..Len(FeedIds) :
                 /\ scraper.outcomes[i].feed_id = FeedIds[i]
                 /\ scraper.outcomes[i].levelname =
                        IF scraper.coros[FeedIds[i]].pc = "raised"
                        THEN "ERROR" ELSE "INFO"
                 /\ scraper.coros[FeedIds[i]].pc = "returned" =>
                        Captured(FeedIds[i])

\* a run in which the first feed gave up and the second was captured after
\* it, with one outcome logged for each
C14_Witness ==
    /\ scraper.pc = "done"
    /\ scraper.coros[FeedIds[1]].pc = "raised"
    /\ scraper.coros[FeedIds[2]].pc = "returned"
    /\ ~Captured(FeedIds[1]) /\ Captured(FeedIds[2])
    /\ Len(scraper.outcomes) = 2

-----------------------------------------------------------------------------
(* The replacement map *)

\* the route whose entry is derived from an entry of route_id, if any
Related(feed_id, route_id) ==
    CASE route_id = "6" -> Some("6X")
      [] route_id = "7" -> Some("7X")
      [] route_id = "S" /\ feed_id = "1" -> Some("GS")
      [] OTHER -> None

\* the entries of a route in the list of the header, by position
EntriesOf(periods, route_id) ==
    {i \in 1..Len(periods) : periods[i].route_id = route_id}

\* the end of the first entry of a route, and of its last
FirstEnd(periods, route_id) ==
    periods[CHOOSE i \in EntriesOf(periods, route_id) :
                \A j \in EntriesOf(periods, route_id) : i <= j].end

LastEnd(periods, route_id) ==
    periods[CHOOSE i \in EntriesOf(periods, route_id) :
                \A j \in EntriesOf(periods, route_id) : j <= i].end

\* the map holds every listed route with its own end, and for every listed
\* route the related route: with its own end when it is listed too,
\* wherever in the list, and else with the end of the entry it derives from
\* (of the first such entry, should the feed list the route twice)
Backfilled(replacements, feed_id, periods) ==
    /\ \A i \in 1..Len(periods) :
          /\ periods[i].route_id \in DOMAIN replacements
          /\ replacements[periods[i].route_id] =
                 LastEnd(periods, periods[i].route_id)
          /\ LET related == Related(feed_id, periods[i].route_id)
             IN related # None =>
                   /\ Get(related) \in DOMAIN replacements
                   /\ replacements[Get(related)] =
                          IF EntriesOf(periods, Get(related)) # {}
                          THEN LastEnd(periods, Get(related))
                          ELSE FirstEnd(periods, periods[i].route_id)
    /\ \A r \in DOMAIN replacements :
          \E i \in 1..Len(periods) :
              r = periods[i].route_id \/ Some(r) = Related(feed_id, periods[i].route_id)

-----------------------------------------------------------------------------
(* Reconciling a trip update *)

\* the positions of the stop time events that are to be retained: the stop
\* is in the stops table and an arrival or a departure is there
Retained(events) ==
    {i \in 1..Len(events) :
        /\ events[i].stop_id \in stops
        /\ (events[i].arrival # None \/ events[i].departure # None)}

\* the k-th smallest position of a set of positions
Nth(positions, k) ==
    CHOOSE i \in positions : Cardinality({j \in positions : j <= i}) = k

\* `kept` is the events at the retained positions, in their order
RetainsExactly(kept, events) ==
    /\ Len(kept) = Cardinality(Retained(events))
    /\ \A k \in 1..Len(kept) : kept[k] = events[Nth(Retained(events), k)]

\* the trip update a snapshot of FixRows carries, decoded
DecodedUpdate(row) == parse_feed_message(row.feed_id, row.raw).trip_updates[1]

\* C16: reconciling a trip update retains exactly the stop time events whose
\* stop is in the stops table and that have an arrival or a departure, in
\* their order; whether an event is retained depends on that event only.
\* The MTA processor stores the retained events as the trip's entry.
C16_RetainsValidStopTimes ==
    \A row \in realtime_raw :
        /\ RetainsExactly(fix_trip_update(DecodedUpdate(row)).stop_time_updates,
                          DecodedUpdate(row).stop_time_updates)
        /\ DecodedUpdate(row).trip.route_id # None =>
               RetainsExactly(
                   fix_feed_mesesage(parse_feed_message(row.feed_id, row.raw))
                       .trip_updates[1].stop_time_updates,
                   DecodedUpdate(row).stop_time_updates)
        /\ /\ rows = <<row>>
           /\ self.cls = "MTARealtimeProcessor"
           /\ DecodedUpdate(row).trip.route_id # None
           => \E e \in db.realtime_raw_stop_times :
                 /\ db.realtime_raw_stop_times = {e}
                 /\ RetainsExactly(
                        [i \in 1..Len(e.stop_times) |->
                            deserialize_stop_time(e.stop_times[i])],
                        DecodedUpdate(row).stop_time_updates)

\* a processed trip update whose first event has neither arrival nor
\* departure and whose second event is retained and stored
C16_Witness ==
    /\ realtime_raw \in FixRows
    /\ rows # <<>>
    /\ self.cls = "MTARealtimeProcessor"
    /\ LET events == DecodedUpdate(rows[1]).stop_time_updates
       IN /\ Len(events) = 2
          /\ events[1].stop_id \in stops
          /\ events[1].arrival = None /\ events[1].departure = None
          /\ Retained(events) = {2}
          /\ \E e \in db.realtime_raw_stop_times :
                Len(e.stop_times) = 1 /\ e.stop_times[1].stop_id = events[2].stop_id

\* the route_id of a descriptor as the protobuf accessor reads it: an absent string
\* field reads as the empty string
RouteString(descriptor) ==
    IF descriptor.route_id = None THEN "" ELSE Get(descriptor.route_id)

\* the trip update a snapshot of FixRows carries, as the feed has it
FeedUpdate(row) == Get(row.raw.entity[1].trip_update)

\* the warning of the drop is in the log
DropWarned(row) ==
    \E record \in log :
        /\ record.levelname = "WARNING"
        /\ record.msg = "No route for trip"
        /\ record.trip_id = FeedUpdate(row).trip.trip_id

\* C17: a trip update whose descriptor has no route is dropped by the
\* reconciliation and nothing is persisted for it; the drop is logged as a
\* warning unless the route is inside a replacement window at the time of
\* the snapshot, and then no warning is logged.
C17_NoRouteDropped ==
    \A row \in Range(rows) :
        DecodedUpdate(row).trip.route_id = None =>
            /\ message_of(self.cls, row).trip_updates = <<>>
                   \/ self.cls # "MTARealtimeProcessor"
            /\ db = EmptyStore
            /\ DropWarned(row) <=>
                   ~is_trip_replaced(parse_feed_message(row.feed_id, row.raw),
                                     RouteString(FeedUpdate(row).trip))

-----------------------------------------------------------------------------
(* Vehicle positions *)

\* C18: vehicle positions are decoded into the FeedMessage and never
\* persisted: whatever snapshots are processed, the vehicle position store
\* stays empty.
C18_VehiclePositionsNotPersisted ==
    /\ \A row \in realtime_raw :
          Len(message_of(self.cls, row).vehicle_positions) = 1
    /\ db.realtime_vehicle_positions = {}

-----------------------------------------------------------------------------
(* Resolving a trip descriptor *)

\* the service day of a service date, by the name of its weekday
ServiceDayOf(yyyymmdd) ==
    CASE yyyymmdd = "20200302" -> WEEKDAY   \* a Monday
      [] yyyymmdd = "20200306" -> WEEKDAY   \* a Friday
      [] yyyymmdd = "20200307" -> SATURDAY
      [] yyyymmdd = "20200308" -> SUNDAY

\* the trip ids the alternate-id mapping holds for an id and a service date
Mapped(trip_id, yyyymmdd) ==
    {m.trip_id : m \in {r \in mta_trip_id :
                           /\ r.alternate_trip_id = trip_id
                           /\ r.service_day = ServiceDayOf(yyyymmdd)}}

\* what resolve is to return for a descriptor of the feed
Resolved(descriptor) ==
    IF descriptor.trip_id \in trips THEN Some([trip_id |-> descriptor.trip_id])
    ELSE IF Cardinality(Mapped(descriptor.trip_id, descriptor.start_date)) = 1
    THEN Some([trip_id |-> CHOOSE id \in Mapped(descriptor.trip_id,
                                                descriptor.start_date) : TRUE])
    ELSE None

\* the stop times a processor has stored carry the trip id `trip_id`
StoredUnder(trip_id) ==
    /\ StopTimes(db) # {}
    /\ \A r \in StopTimes(db) : r.trip_id = trip_id

\* C19: resolving a descriptor returns the scheduled trip of its trip id
\* when the trips table has it; otherwise it looks up the alternate-id
\* mapping by the id and the service day of the descriptor's date (Monday to
\* Friday Weekday, Saturday, Sunday) and returns none when no row matches,
\* the scheduled trip of the mapped id when one row matches, and none when
\* several match.  A processed trip update is stored under the resolved
\* trip's id, or under its own when there is none.
C19_Resolve ==
    \A row \in realtime_raw :
        /\ get_trip_row_from_descriptor(DecodedUpdate(row).trip)
               = Resolved(FeedUpdate(row).trip)
        /\ rows = <<row>> =>
               StoredUnder(IF Resolved(FeedUpdate(row).trip) # None
                           THEN Get(Resolved(FeedUpdate(row).trip)).trip_id
                           ELSE FeedUpdate(row).trip.trip_id)

\* a processed trip update whose short id two trips of its service day
\* share: it is stored under its own id and logged as not scheduled
C19_Witness ==
    /\ realtime_raw \in ResolveRows
    /\ rows # <<>>
    /\ FeedUpdate(rows[1]).trip.trip_id = Short_010600_1_S
    /\ Mapped(Short_010600_1_S, FeedUpdate(rows[1]).trip.start_date)
           = {AFA19GEN_1037_Sunday, AFA19GEN_1038_Sunday}
    /\ StoredUnder(Short_010600_1_S)
    /\ log # {}

\* the id matches the strict grammar of trip ids
MatchesGrammar(trip_id) == ~raises(parse_trip_id(trip_id))

\* C20: a descriptor's trip id that the direct lookup does not find is
\* parsed with the strict grammar, and an id that does not match it makes
\* the resolution fail with a fatal error; no such trip update is ever
\* processed as if no trip had matched.
C20_GrammarMismatchIsFatal ==
    \A row \in Range(rows) :
        FeedUpdate(row).trip.trip_id \notin trips =>
            MatchesGrammar(FeedUpdate(row).trip.trip_id)

-----------------------------------------------------------------------------
(* Calls of nyc.parse_trip_id and nyc.short_trip_ids *)

\* the parts trip ids are put together from, some of them outside the
\* grammar: a sub-division C, a service code Holiday, an origin time of five
\* digits, a direction X
IdSubDivisions == {<<"A">>, <<"S", "I", "R">>, <<"C">>}
IdDashes == {<< >>, <<"-">>}
IdEffectiveDates == {<<"F", "A", "1", "9", "G", "E", "N">>,
                     <<"F", "A", "2", "0", "1", "7">>}
IdUnknowns == {<<"1", "0", "3", "7">>, <<"G", "S", "0", "1", "0">>}
IdServiceCodes == {SUNDAY, WEEKDAY, <<"H", "o", "l", "i", "d", "a", "y">>}
IdOriginTimes == {<<"0", "1", "0", "6", "0", "0">>,
                  <<"0", "1", "0", "6", "0">>}
IdRoutes == {<<"1">>, <<"G", "S">>}
IdDots == {<<".">>, <<".", ".">>}
IdDirections == {<<"S">>, <<"N">>, <<"X">>}
IdPathIdentifiers == {<<"0", "3", "R">>, << >>, <<".", "N", "1">>}

\* trip_path of a trip id
path_of(route, dots, direction, path_identifier) ==
    concat(concat(concat(route, dots), direction), path_identifier)

\* the part of a trip id before its service code
head_of(sub_division, dash, effective_date, unknown_1) ==
    concat(concat(concat(concat(sub_division, dash), effective_date),
                  <<"-">>), unknown_1)

\* the part of a trip id from its service code
tail_of(service_code, origin_time, trip_path) ==
    concat(concat(concat(concat(<<"-">>, service_code), <<"-", "0", "0", "_">>),
                  origin_time), concat(<<"_">>, trip_path))

TripIds ==
    {concat(head_of(sub_division, dash, effective_date, unknown_1),
            tail_of(service_code, origin_time,
                    path_of(route, dots, direction, path_identifier))) :
        sub_division \in IdSubDivisions, dash \in IdDashes,
        effective_date \in IdEffectiveDates, unknown_1 \in IdUnknowns,
        service_code \in IdServiceCodes, origin_time \in IdOriginTimes,
        route \in IdRoutes, dots \in IdDots, direction \in IdDirections,
        path_identifier \in IdPathIdentifiers}

calling(function, arguments) ==
    [function |-> function, args |-> arguments, result |-> None]

returned(result) == [call EXCEPT !.result = Some(result)]

\* parse_trip_id(trip_id) returns or raises
ParseTripId ==
    /\ call.function = "parse_trip_id"
    /\ call.result = None
    /\ call' = returned(parse_trip_id(call.args[1]))
    /\ UNCHANGED <<parser, realtime_raw, log, scraper, process_vars>>

\* short_trip_ids(trip_id) returns or raises
ShortTripIds ==
    /\ call.function = "short_trip_ids"
    /\ call.result = None
    /\ call' = returned(short_trip_ids(call.args[1]))
    /\ UNCHANGED <<parser, realtime_raw, log, scraper, process_vars>>

GrammarInit ==
    /\ realtime_raw = {}
    /\ self = [cls |-> "MTARealtimeProcessor", from_time |-> None]
    /\ NotRunning
    /\ call \in {calling(function, <<trip_id>>) :
                    function \in {"parse_trip_id", "short_trip_ids"},
                    trip_id \in TripIds}

GrammarNext == ParseTripId \/ ShortTripIds

GrammarSpec == GrammarInit /\ [][GrammarNext]_vars

\* the trip path of a parsed id is its route id, one dot or more, its
\* direction and its path identifier
PathDecomposed(parsed) ==
    \E dots \in 1..Len(parsed.trip_path) :
        /\ parsed.trip_path
               = path_of(parsed.route_id, [i \in 1..dots |-> "."],
                         parsed.direction, parsed.path_identifier)
        /\ parsed.direction \in {<<d>> : d \in Directions}

\* the id is its sub-division and its effective date, something, and its
\* service day, origin time and trip path
Decomposed(trip_id, parsed) ==
    /\ parsed.sub_division \in SubDivisions
    /\ parsed.service_day \in ServiceCodes
    /\ \E dash \in IdDashes :
          startswith(trip_id,
                     concat(concat(concat(parsed.sub_division, dash),
                                   parsed.effective_date), <<"-">>))
    /\ \E n \in 1..Len(trip_id) :
          SubSeq(trip_id, n, Len(trip_id))
              = tail_of(parsed.service_day, parsed.origin_time,
                        parsed.trip_path)
    /\ PathDecomposed(parsed)

\* the two candidate keys of a parsed id
CandidateKeys(parsed) ==
    <<concat(concat(parsed.origin_time, <<"_">>), parsed.trip_path),
      concat(concat(parsed.origin_time, <<"_">>),
             SubSeq(parsed.trip_path, 1,
                    Len(parsed.trip_path) - Len(parsed.path_identifier)))>>

\* C21: for every trip id that matches the grammar, parse_trip_id
\* decomposes it into sub-division, effective date, service day, origin
\* time and trip path (route id, direction, path identifier), and
\* short_trip_ids returns exactly two keys: origin time and trip path, and
\* the same with the trailing path identifier removed.
C21_ShortTripIds ==
    (call.result # None /\ MatchesGrammar(call.args[1])) =>
        /\ call.function = "parse_trip_id" =>
               Decomposed(call.args[1], Get(call.result))
        /\ call.function = "short_trip_ids" =>
               Get(call.result) = CandidateKeys(parse_trip_id(call.args[1]))

\* the same for the ids whose path identifier is not empty
ShortTripIdsOfIdentified ==
    (/\ call.result # None
     /\ MatchesGrammar(call.args[1])
     /\ parse_trip_id(call.args[1]).path_identifier # << >>) =>
        /\ call.function = "parse_trip_id" =>
               Decomposed(call.args[1], Get(call.result))
        /\ call.function = "short_trip_ids" =>
               Get(call.result) = CandidateKeys(parse_trip_id(call.args[1]))

\* the keys of the id of nyc.py's comment have been computed
ShortTripIdsOfExample ==
    /\ call.function = "short_trip_ids"
    /\ call.args = <<AFA19GEN_1037_Sunday>>
    /\ call.result = Some(<<Short_010600_1_S03R, Short_010600_1_S>>)

-----------------------------------------------------------------------------
(* Calls of scraper_job.process_feed *)

\* FeedMessage.IsInitialized: the required header is set
IsInitialized(feed_message) == "header" \in DOMAIN feed_message

\* a download without a header
Uninitialized == [entity |-> << >>]

\* the header times of the downloads
CaptureTimes == {1, 2}

\* what nyc.get_data returns: snapshots without entities and with a trip
\* update, and a message that is not initialized
Downloads ==
    {snapshot(t, entity) :
        t \in CaptureTimes,
        entity \in {<< >>,
                    <<trip_update_entity(
                          trip_update_of(
                              trip_pb(AFA19GEN_1037_Sunday, Some("R1"),
                                      "20200308"),
                              <<stop_time_update_pb("S1", Some(FarTime), None)>>,
                              None))>>}}
      \cup {Uninitialized}

\* process_feed, lines 22-55, on what get_data returned at request_time: the
\* table afterwards and what the call returns or raises
process_feed(tbl, feed_id, feed_message, request_time) ==
    IF ~IsInitialized(feed_message)
    THEN [realtime_raw |-> tbl, result |-> raised("Exception")]
    ELSE [realtime_raw |->
              process_feed_insert(tbl, values_of(feed_id, feed_message,
                                                 request_time)),
          result |-> None]

\* process_feed(feed_id) returns or raises
ProcessFeed ==
    /\ call.function = "process_feed"
    /\ call.result = None
    /\ realtime_raw' = process_feed(realtime_raw, call.args[1], call.args[2],
                                    call.args[3]).realtime_raw
    /\ call' = returned(process_feed(realtime_raw, call.args[1], call.args[2],
                                     call.args[3]).result)
    /\ UNCHANGED <<parser, log, scraper, process_vars>>

\* the calls of process_feed: a feed, its download and the clock's reading
Captures ==
    {calling("process_feed", <<feed_id, feed_message, request_time>>) :
        feed_id \in Feeds, feed_message \in Downloads,
        request_time \in 1..MaxTime}

\* a later run of the scraper calls process_feed again
CallProcessFeed ==
    /\ call.function = "process_feed"
    /\ call.result # None
    /\ call' \in Captures
    /\ UNCHANGED <<parser, realtime_raw, log, scraper, process_vars>>

CaptureInit ==
    /\ realtime_raw = {}
    /\ self = [cls |-> "MTARealtimeProcessor", from_time |-> None]
    /\ NotRunning
    /\ call \in Captures

CaptureNext == ProcessFeed \/ CallProcessFeed

CaptureSpec == CaptureInit /\ [][CaptureNext]_vars

-----------------------------------------------------------------------------
(* Capturing a snapshot *)

\* the rows of the key of a capture
RowsOfKey(tbl, feed_id, time) ==
    {r \in tbl : r.system = system /\ r.feed_id = feed_id /\ r.time = time}

\* the table tbl2 is tbl after the capture of feed_message for feed_id at
\* request_time: a row of the key only has a new update_time, and when
\* there was none the table has one row more, which holds the message
CapturedInto(tbl, tbl2, feed_id, feed_message, request_time) ==
    LET time == feed_message.header.timestamp
    IN /\ \A r \in tbl \ RowsOfKey(tbl, feed_id, time) : r \in tbl2
       /\ \A r \in RowsOfKey(tbl, feed_id, time) :
             [r EXCEPT !.update_time = request_time] \in tbl2
       /\ Cardinality(RowsOfKey(tbl2, feed_id, time)) = 1
       /\ IF RowsOfKey(tbl, feed_id, time) # {}
          THEN Cardinality(tbl2) = Cardinality(tbl)
          ELSE /\ Cardinality(tbl2) = Cardinality(tbl) + 1
               /\ \A r \in RowsOfKey(tbl2, feed_id, time) :
                     /\ r.raw = feed_message
                     /\ r.json = MessageToJson(feed_message)
                     /\ r.update_time = request_time

\* C22: capturing a snapshot whose key (system, feed_id, time) is already in
\* realtime_raw changes only that row's update_time, its raw and json stay
\* and no second row is made; capturing a new key inserts exactly one row.
C22_CaptureTouchesUpdateTime ==
    [][(/\ call.function = "process_feed"
        /\ call.result = None
        /\ IsInitialized(call.args[2]))
           => CapturedInto(realtime_raw, realtime_raw', call.args[1],
                           call.args[2], call.args[3])]_vars

\* a snapshot was captured again with other contents at another time: the
\* row has the time of the second capture and the contents of the first
C22_Witness ==
    /\ call.function = "process_feed"
    /\ call.result # None
    /\ IsInitialized(call.args[2])
    /\ \E r \in RowsOfKey(realtime_raw, call.args[1],
                          call.args[2].header.timestamp) :
          /\ r.raw # call.args[2]
          /\ r.update_time = call.args[3]
    /\ Cardinality(realtime_raw) = 2

-----------------------------------------------------------------------------
(* Runs of one job, with and without --checkpoint *)

\* a second run under the job name of the first, with any command line: the
\* stored checkpoint of the job, or the one of --checkpoint
Rerun ==
    /\ pc \in {"done", "failed", "stopped"}
    /\ prev.pc = "idle"
    /\ args.job_name # None
    /\ \E a \in Args(self.cls) :
          /\ a.job_name = args.job_name
          /\ StartRun(a)

\* the first run has a job name
StartJob ==
    /\ pc = "idle"
    /\ \E a \in Args(self.cls) :
          /\ a.job_name # None
          /\ StartRun(a)

JobInit ==
    /\ realtime_raw \in {T \in SUBSET PlainRows : Cardinality(T) <= MaxRows}
    /\ self = [cls |-> "MTARealtimeProcessor", from_time |-> None]
    /\ RunInit

JobNext == StartJob \/ Rerun \/ RunStep

JobSpec == JobInit /\ [][JobNext]_vars

-----------------------------------------------------------------------------
(* The checkpoints of a job *)

\* the cursor of a row of batch_checkpoints
CursorOf(row) == as_list(loads(CheckpointCls(self.cls), row.checkpoint), cols)

\* the rows of a job, by position
RowsOfJob(tbl, job_name) == {i \in 1..Len(tbl) : tbl[i].job_name = job_name}

\* later rows of a job have greater cursors
CursorsIncrease(tbl) ==
    \A i, j \in 1..Len(tbl) :
        (tbl[i].job_name = tbl[j].job_name /\ tbl[i].time < tbl[j].time)
            => TupleGT(CursorOf(tbl[j]), CursorOf(tbl[i]))

\* the table only grows, at its end
AppendOnly ==
    /\ Len(batch_checkpoints') >= Len(batch_checkpoints)
    /\ SubSeq(batch_checkpoints', 1, Len(batch_checkpoints)) = batch_checkpoints

\* a run that starts under a job name without --checkpoint starts after the
\* job's row of the greatest time
ResumesFromLatest ==
    (pc \in {"idle", "done", "failed", "stopped"} /\ pc' = "fetching"
        /\ args'.checkpoint = None /\ args'.job_name # None
        /\ RowsOfJob(batch_checkpoints, Get(args'.job_name)) # {})
      => \E i \in RowsOfJob(batch_checkpoints, Get(args'.job_name)) :
            /\ \A j \in RowsOfJob(batch_checkpoints, Get(args'.job_name)) :
                  batch_checkpoints[j].time <= batch_checkpoints[i].time
            /\ checkpoint' = Some(loads(CheckpointCls(self.cls),
                                        batch_checkpoints[i].checkpoint))

\* C23: the checkpoint store is append-only, the checkpoint a job resumes
\* from is its row of the greatest time, and over all runs of a job name
\* the cursors strictly increase in the order of the rows' times.
C23_CheckpointsIncrease ==
    /\ [][AppendOnly /\ ResumesFromLatest]_vars
    /\ [](CursorsIncrease(batch_checkpoints))

\* the same without the cursors
CheckpointsAppendOnly == [][AppendOnly /\ ResumesFromLatest]_vars


-----------------------------------------------------------------------------
(* Checkpoint.dumps and Checkpoint.loads as functions                     *)
(* (batch_process.py, lines 41-54, 66-95 and 257-267): a checkpoint of    *)
(* class cls with the fields `fields` is serialized in a system of time   *)
(* zone tz, and the text is read back.                                     *)

\* Checkpoint.loads of Checkpoint.dumps, or what dumps raises
loads_of_dumps(cls, serialized) ==
    IF raises(serialized) THEN serialized
    ELSE Checkpoint_loads(cls, serialized)

\* cls(fields).dumps() returns or raises
Dumps ==
    /\ call.function = "dumps"
    /\ call.result = None
    /\ call' = returned(Checkpoint_dumps(call.args[1], call.args[2],
                                         call.args[3]))
    /\ UNCHANGED <<parser, realtime_raw, log, scraper, process_vars>>

\* cls.loads(cls(fields).dumps()).fields returns or raises
LoadsOfDumps ==
    /\ call.function = "loads_of_dumps"
    /\ call.result = None
    /\ call' = returned(the({loads_of_dumps(call.args[1], serialized) :
                               serialized \in {Checkpoint_dumps(call.args[1],
                                                                call.args[2],
                                                                call.args[3])}}))
    /\ UNCHANGED <<parser, realtime_raw, log, scraper, process_vars>>

SerializeInit ==
    /\ realtime_raw = {}
    /\ self = [cls |-> "MTARealtimeProcessor", from_time |-> None]
    /\ NotRunning
    /\ call \in {calling(function, <<cls, fields, tz>>) :
                    function \in {"dumps", "loads_of_dumps"},
                    cls \in CheckpointClasses, fields \in CheckpointFields,
                    tz \in UtcOffsets}

SerializeNext == Dumps \/ LoadsOfDumps

SerializeSpec == SerializeInit /\ [][SerializeNext]_vars

\* the fields have the same names and equal values
fields_eq(x, y) ==
    /\ ~raises(y)
    /\ DOMAIN x = DOMAIN y
    /\ \A name \in DOMAIN x : py_eq(x[name], y[name])

\* C24: for every checkpoint x whose fields are strs, ints, datetimes or
\* mappings, of either checkpoint class, dumps returns a text, and
\* loads(dumps(x)) has the field names of x and equal field values.
C24_RoundTrip ==
    call.result # None =>
        /\ ~raises(Get(call.result))
        /\ call.function = "loads_of_dumps" =>
              fields_eq(call.args[2], Get(call.result))

\* a mapping json.loads returns as json.dumps was given it: its keys are
\* strs and its values strs, ints or such mappings
RECURSIVE json_native(_)
json_native(value) ==
    CASE value.py \in {"str", "int"} -> TRUE
      [] value.py = "datetime" -> FALSE
      [] value.py = "dict" ->
            \A k \in DOMAIN value.items :
                k.py = "str" /\ json_native(value.items[k])

\* a field the classes serialize and read back as it was: the update_time
\* of the deprecated class is a datetime, any other field is an aware
\* datetime or a str, an int or a mapping of these with str keys
round_trips(cls, field_name, value) ==
    IF cls = "RealtimeRawCheckpointDEPRECATED" /\ field_name = "update_time"
    THEN value.py = "datetime"
    ELSE IF value.py = "datetime" THEN value.utcoffset # None
    ELSE json_native(value)

\* checkpoints of such fields round-trip
RoundTripOfAware ==
    /\ call.result # None
    /\ \A name \in DOMAIN call.args[2] :
          round_trips(call.args[1], name, call.args[2][name])
    => /\ ~raises(Get(call.result))
       /\ call.function = "loads_of_dumps" =>
             fields_eq(call.args[2], Get(call.result))

\* every other checkpoint does not
NoRoundTripOtherwise ==
    /\ call.result # None
    /\ call.function = "loads_of_dumps"
    /\ \E name \in DOMAIN call.args[2] :
          ~round_trips(call.args[1], name, call.args[2][name])
    => ~fields_eq(call.args[2], Get(call.result))


-----------------------------------------------------------------------------
(* Runs over snapshots that do not decode                                  *)
(* (mta_realtime_processor.py lines 40-46, batch_process.py lines         *)
(* 281-287): the raw column of a row holds bytes that are no FeedMessage,  *)
(* or a message without its required header.                               *)

\* bytes that are no FeedMessage
Undecodable == [bytes |-> "truncated"]

\* FeedMessage.ParseFromString(row["raw"]): DecodeError for bytes that do not
\* parse; required fields are not checked, an absent header reads as its
\* defaults
ParseFromString(raw) ==
    IF "bytes" \in DOMAIN raw THEN raised("DecodeError")
    ELSE IF ~IsInitialized(raw) THEN snapshot(0, raw.entity)
    ELSE raw

\* the raw column of a snapshot with one trip update: as captured, without
\* its header, or not a message
DecodeKinds == {"captured", "no header", "undecodable"}

raw_of(kind, t) ==
    CASE kind = "captured" ->
            snapshot(t, <<trip_update_entity(trip_update_pb(<<"S1">>))>>)
      [] kind = "no header" ->
            [entity |-> <<trip_update_entity(trip_update_pb(<<"S1">>))>>]
      [] kind = "undecodable" -> Undecodable

\* the rows of feed 1, one per clock reading of T, each of its kind
DecodeRows ==
    UNION {{{[raw_row(t, FeedIds[1], t, << >>) EXCEPT !.raw = raw_of(k[t], t)] :
                t \in T} :
              k \in [T -> DecodeKinds]} :
            T \in SUBSET (1..MaxSnapshots)}

\* the row as process_row reads it once its raw column is parsed
parsed_row(row) == [row EXCEPT !.raw = ParseFromString(row.raw)]

\* a row's process_row returns: its raw column parsed, all its statements
\* were executed
Decoded(i) ==
    /\ pc = "processing"
    /\ task[i] = "running"
    /\ ~raises(ParseFromString(rows[i].raw))
    /\ LET trace == process_row(self.cls, db, parsed_row(rows[i]))
       IN /\ trace.ok
          /\ db' = final(db, trace)
    /\ log' = log \cup logged(self.cls, parsed_row(rows[i]))
    /\ task' = [task EXCEPT ![i] = "done"]
    /\ done' = done \cup {rows[i]}
    /\ UNCHANGED <<parser, call, scraper, realtime_raw, self, batch_checkpoints, pc,
                   args, checkpoint, res, rows, rowcount, query, started,
                   written, prev>>

\* a row's process_row raises DecodeError from ParseFromString, its first
\* statement: asyncio.gather raises it into _main, which does not catch it
DecodeError(i) ==
    /\ pc \in {"processing", "failed"}
    /\ task[i] = "running"
    /\ raises(ParseFromString(rows[i].raw))
    /\ task' = [task EXCEPT ![i] = "raised"]
    /\ pc' = "failed"
    /\ UNCHANGED <<parser, call, log, scraper, realtime_raw, self, db,
                   batch_checkpoints, args, checkpoint, res, rows, rowcount,
                   query, started, done, written, prev>>

\* the command lines of the runs: the whole table, with and without a job
DecodeArgs == {NoArgs, ReplayArgs}

DecodeInit ==
    /\ realtime_raw \in DecodeRows
    /\ self \in {p \in Processors : p.from_time = None}
    /\ RunInit

\* the first run
DecodeStart ==
    /\ pc = "idle"
    /\ \E a \in DecodeArgs : StartRun(a)

\* the next run, with the command line of the first
DecodeResume ==
    /\ pc \in {"done", "failed"}
    /\ prev.pc = "idle"
    /\ StartRun(args)

DecodeNext ==
    \/ DecodeStart
    \/ DecodeResume
    \/ FetchPage
    \/ \E i \in 1..Len(rows) : StartRow(i)
    \/ \E i \in 1..Len(rows) : Decoded(i)
    \/ \E i \in 1..Len(rows) : DecodeError(i)
    \/ CompletePage

DecodeSpec == DecodeInit /\ [][DecodeNext]_vars

\* the raw column decodes into a fully initialized message
FullyInitialized(raw) ==
    /\ ~raises(ParseFromString(raw))
    /\ IsInitialized(raw)

\* process_row of row i ends in this step
Ends(i) ==
    /\ rows' = rows
    /\ i \in DOMAIN task'
    /\ task[i] = "running"
    /\ task'[i] # "running"

\* the captured snapshots are left as they are
CapturedUnchanged == realtime_raw' = realtime_raw

\* a snapshot that is not fully initialized fails, and nothing is written
\* for it
FailsWithoutWrites ==
    \A i \in 1..Len(rows) :
        Ends(i) /\ ~FullyInitialized(rows[i].raw)
            => task'[i] = "raised" /\ db' = db /\ log' = log

\* the failure of a snapshot does not fail the run
NotFatal ==
    \A i \in 1..Len(rows) :
        Ends(i) /\ task'[i] = "raised" => pc' = pc

\* a run is over when every fully initialized snapshot of its query was
\* processed
OthersProcessed ==
    pc \in {"done", "failed"} =>
        \A i \in 1..Len(query) :
            FullyInitialized(query[i].raw) => query[i] \in done

DecodeErrorWritesNothing ==
    [][/\ CapturedUnchanged
       /\ \A i \in 1..Len(rows) :
             Ends(i) /\ raises(ParseFromString(rows[i].raw))
                 => task'[i] = "raised" /\ db' = db /\ log' = log]_vars

\* a decode error fails the run, in every state of which a later snapshot
\* of the page is left unprocessed
DecodeErrorIsFatal ==
    [][\A i \in 1..Len(rows) :
          Ends(i) /\ task'[i] = "raised" => pc' = "failed"]_vars

\* a message without its header is processed as any other, under the
\* header time 0
NoHeaderIsProcessed ==
    [][\A i \in 1..Len(rows) :
          Ends(i) /\ ~IsInitialized(rows[i].raw) /\ "bytes" \notin DOMAIN rows[i].raw
              => task'[i] = "done"]_vars

\* the store holds a row of the header time 0
NoHeaderWritten ==
    \E r \in db.realtime_raw_stop_times : r.time = 0

-----------------------------------------------------------------------------
(* importer.get_db_rows: the rows of a row spec.  A row spec is the list   *)
(* of the items of a dict, in insertion order; a row is a function of its  *)
(* columns.                                                                *)

\* the longest list of options of a CartesianProduct
MaxOptions == 2

\* importer.CartesianProduct, lines 24-25
CartesianProduct(options) == [options |-> options]

\* isinstance(val, CartesianProduct), line 156
isinstance_CartesianProduct(val) == "options" \in DOMAIN val

\* lines 158-162 with every row paired with the option of its own position
next_rows_zipped(dicts, col, options) ==
    [j \in DOMAIN dicts \cap DOMAIN options |->
        setitem(dicts[j], col, options[j])]

\* get_db_rows, lines 157-162: for each option, a copy of every row with
\* the option in col
RECURSIVE next_rows(_, _, _)
next_rows(dicts, col, options) ==
    IF options = << >> THEN << >>
    ELSE [j \in DOMAIN dicts |-> setitem(dicts[j], col, Head(options))]
             \o next_rows(dicts, col, Tail(options))

\* get_db_rows, lines 155-166: the loop over the items from the i-th on
RECURSIVE get_db_rows_from(_, _, _)
get_db_rows_from(items, i, dicts) ==
    IF i > Len(items) THEN dicts
    ELSE get_db_rows_from(
             items, i + 1,
             IF isinstance_CartesianProduct(items[i].val)
             THEN next_rows(dicts, items[i].col, items[i].val.options)
             ELSE [j \in DOMAIN dicts |->
                      setitem(dicts[j], items[i].col, items[i].val)])

\* get_db_rows, lines 152-167
get_db_rows(db_row_spec) == get_db_rows_from(db_row_spec, 1, << << >> >>)

\* the columns of the row specs of test_importer
Columns == {"num", "str", "datetime"}

\* NOW of test_importer
NOW == py_datetime(1, None)

\* the values a column has in test_importer
PlainValues(col) ==
    CASE col = "num" -> {py_int(1), py_int(2)}
      [] col = "str" -> {py_str("a"), py_str("b")}
      [] col = "datetime" -> {NOW}

\* the lists of up to MaxOptions values of a column, which may repeat
Options(col) == UNION {[1..n -> PlainValues(col)] : n \in 0..MaxOptions}

\* the values of a column in a row spec: one of its values, or a
\* CartesianProduct of them
ColumnValues(col) ==
    PlainValues(col) \cup {CartesianProduct(o) : o \in Options(col)}

Items == UNION {[col : {col}, val : ColumnValues(col)] : col \in Columns}

\* the row specs: dicts of some of the columns, in every insertion order
RowSpecs ==
    {items \in UNION {[1..n -> Items] : n \in 0..Cardinality(Columns)} :
        \A i, j \in DOMAIN items : i # j => items[i].col # items[j].col}

\* get_db_rows(db_row_spec) returns
GetDbRows ==
    /\ call.function = "get_db_rows"
    /\ call.result = None
    /\ call' = returned(get_db_rows(call.args[1]))
    /\ UNCHANGED <<parser, realtime_raw, log, scraper, process_vars>>

ImportInit ==
    /\ realtime_raw = {}
    /\ self = [cls |-> "MTARealtimeProcessor", from_time |-> None]
    /\ NotRunning
    /\ call \in {calling("get_db_rows", <<db_row_spec>>) :
                    db_row_spec \in RowSpecs}

ImportNext == GetDbRows

ImportSpec == ImportInit /\ [][ImportNext]_vars

\* the positions of the CartesianProduct columns in a row spec
product_items(items) ==
    {i \in DOMAIN items : isinstance_CartesianProduct(items[i].val)}

\* the combinations of a row spec: one position in the options of each
\* CartesianProduct column
Combinations(items) ==
    {choice \in [product_items(items) -> 1..MaxOptions] :
        \A i \in product_items(items) :
            choice[i] <= Len(items[i].val.options)}

\* the concrete row of a combination
row_of(items, choice) ==
    [col \in {items[i].col : i \in DOMAIN items} |->
        the({IF i \in product_items(items)
             THEN items[i].val.options[choice[i]]
             ELSE items[i].val : i \in {k \in DOMAIN items :
                                           items[k].col = col}})]

\* the product of the option counts of the items from the i-th on
RECURSIVE option_counts(_, _)
option_counts(items, i) ==
    IF i > Len(items) THEN 1
    ELSE (IF isinstance_CartesianProduct(items[i].val)
          THEN Len(items[i].val.options) ELSE 1)
             * option_counts(items, i + 1)

\* rows holds one row for every combination of items, no more
OneRowPerCombination(items, dicts) ==
    /\ Len(dicts) = option_counts(items, 1)
    /\ \A choice \in Combinations(items) :
          Cardinality({j \in DOMAIN dicts : dicts[j] = row_of(items, choice)})
              = Cardinality({other \in Combinations(items) :
                                row_of(items, other) = row_of(items, choice)})
    /\ \A j \in DOMAIN dicts :
          \E choice \in Combinations(items) : dicts[j] = row_of(items, choice)

\* every row has every column of items, and the value of the spec in
\* every column that is no CartesianProduct
Concrete(items, dicts) ==
    \A j \in DOMAIN dicts :
        /\ DOMAIN dicts[j] = {items[i].col : i \in DOMAIN items}
        /\ \A i \in DOMAIN items :
              IF isinstance_CartesianProduct(items[i].val)
              THEN \E k \in DOMAIN items[i].val.options :
                      dicts[j][items[i].col] = items[i].val.options[k]
              ELSE dicts[j][items[i].col] = items[i].val

\* C26: get_db_rows returns exactly one row for every combination of one
\* option per CartesianProduct column, the product of the option counts
\* many and a single row when no column is a CartesianProduct; every row
\* has every column of the spec, and the columns that are no
\* CartesianProduct have the value of the spec in every row.
C26_CartesianProduct ==
    (call.function = "get_db_rows" /\ call.result # None) =>
        /\ OneRowPerCombination(call.args[1], Get(call.result))
        /\ Concrete(call.args[1], Get(call.result))

\* the third row spec of test_importer has returned its four rows
C26_Witness ==
    /\ call.function = "get_db_rows"
    /\ call.args[1] =
           << [col |-> "num",
               val |-> CartesianProduct(<<py_int(1), py_int(2)>>)],
              [col |-> "str",
               val |-> CartesianProduct(<<py_str("a"), py_str("b")>>)],
              [col |-> "datetime", val |-> NOW] >>
    /\ call.result # None
    /\ Len(Get(call.result)) = 4
    /\ Get(call.result)[2] =
           [num |-> py_int(2), str |-> py_str("a"), datetime |-> NOW]
    /\ Get(call.result)[3] =
           [num |-> py_int(1), str |-> py_str("b"), datetime |-> NOW]

-----------------------------------------------------------------------------
(* The stop time rows that are written *)

\* a stop time row refers to a stop of the stops table and has an arrival
\* or a departure
ValidStopTime(r) ==
    /\ r.stop_id \in stops
    /\ (r.arrival # None \/ r.departure # None)

\* the rows of the upsert process_trip_update issues for each trip update
\* of the reconciled message
MTARealtimeProcessor_issued(message) ==
    UNION {Range(stop_times2_values(trip_key(update), update, message)) :
              update \in Range(message.trip_updates)}

\* the rows of the upsert _write_trip_update issues for each trip update
\* of the message
RealtimeWriter_issued(message) ==
    UNION {Range(insert_values(update, message)) :
              update \in {u \in Range(message.trip_updates) :
                             is_valid_trip_descriptor(u.trip)}}

\* the rows of the statements process_row of the processor class cls issues
\* for the stop times of the snapshot `row`
issued(cls, row) ==
    IF cls = "MTARealtimeProcessor"
    THEN MTARealtimeProcessor_issued(
             fix_feed_mesesage(parse_feed_message(row.feed_id, row.raw)))
    ELSE RealtimeWriter_issued(parse_feed_message(row.feed_id, row.raw))

\* C27: every stop time row that is stored, and every row of a statement
\* that is issued for a snapshot, refers to a stop of the stops table and
\* has an arrival or a departure: the stop is looked up before the write,
\* and no statement is issued that the store rejects for an unknown stop.
C27_StoredStopTimesAreValid ==
    /\ \A r \in db.realtime_stop_times \cup db.realtime_stop_times2 :
          ValidStopTime(r)
    /\ \A e \in db.realtime_raw_stop_times :
          \A i \in DOMAIN e.stop_times : ValidStopTime(e.stop_times[i])
    /\ \A row \in realtime_raw :
          \A r \in issued(self.cls, row) : ValidStopTime(r)

\* a snapshot whose first event is at an unknown stop and whose second is
\* at a stop of the stops table was processed: the second event is stored
\* and the first is not
C27_Witness ==
    /\ rows # <<>>
    /\ DecodedUpdate(rows[1]).trip.route_id # None
    /\ LET events == DecodedUpdate(rows[1]).stop_time_updates
       IN /\ Len(events) = 2
          /\ events[1].stop_id \notin stops /\ events[1].arrival # None
          /\ events[2].stop_id \in stops /\ events[2].arrival # None
          /\ \E r \in db.realtime_stop_times \cup db.realtime_stop_times2 :
                /\ db.realtime_stop_times \cup db.realtime_stop_times2 = {r}
                /\ r.stop_id = events[2].stop_id

-----------------------------------------------------------------------------
(* The freshness of the stop time rows *)

\* the header time of the snapshot `row`, decoded
timestamp_of(row) == parse_feed_message(row.feed_id, row.raw).timestamp

\* the stored row r is a row of a statement issued for a snapshot whose
\* header time is the value of r's freshness column
FromMessageOf(r, freshness) ==
    \E row \in realtime_raw :
        /\ r \in issued(self.cls, row)
        /\ r[freshness] = timestamp_of(row)

\* C28: the freshness stored with every stop time row (update_time of
\* realtime_stop_times, time of realtime_stop_times2) is the header
\* timestamp of the message the row came from.
C28_FreshnessIsMessageTimestamp ==
    /\ \A r \in db.realtime_stop_times : FromMessageOf(r, "update_time")
    /\ \A r \in db.realtime_stop_times2 : FromMessageOf(r, "time")

\* RealtimeWriter stores the header timestamp of the message as update_time
\* and the timestamp of the trip update as timestamp
WriterFreshnessIsMessageTimestamp ==
    \A r \in db.realtime_stop_times : FromMessageOf(r, "update_time")

\* MTARealtimeProcessor stores the timestamp of the trip update as time
\* when the trip update has one, and else the header timestamp of the
\* message
ProcessorFreshnessIsOfUpdateOrMessage ==
    \A r \in db.realtime_stop_times2 :
        \E row \in realtime_raw :
            /\ r \in issued(self.cls, row)
            /\ r.time = IF DecodedUpdate(row).timestamp # None
                        THEN Get(DecodedUpdate(row).timestamp)
                        ELSE timestamp_of(row)

\* a stop time row is stored whose time is not the header timestamp of any
\* snapshot
TimeOfTripUpdateStored ==
    \E r \in db.realtime_stop_times2 :
        \A row \in realtime_raw : r.time # timestamp_of(row)

-----------------------------------------------------------------------------
(* Trip updates that resolve to no scheduled trip *)

\* the lists of at most MaxPeriods trip replacement periods, of route R1
\* and of route 6, that list no route twice
UnresolvedPeriods ==
    {l \in UNION {[1..n -> [route_id : {"R1", "6"}, end : 1..MaxTime]] :
                     n \in 0..MaxPeriods} :
        \A i, j \in DOMAIN l : i # j => l[i].route_id # l[j].route_id}

\* one snapshot of feed 1 with one trip update on route R1 that has one
\* arrival, and whose header lists replacement periods
UnresolvedRows ==
    {{nyct_row(t, FeedIds[1], periods,
               <<trip_update_entity(
                     trip_update_of(
                         trip_pb(trip_id, Some("R1"), start_date),
                         <<stop_time_update_pb("S1", Some(FarTime), None)>>,
                         None))>>)} :
        t \in 1..MaxTime, periods \in UnresolvedPeriods,
        trip_id \in FeedTripIds,
        start_date \in {"20200302", "20200306", "20200307", "20200308"}}

UnresolvedInit ==
    /\ realtime_raw \in UnresolvedRows
    /\ self \in {p \in Processors : p.from_time = None}
    /\ RunInit

UnresolvedSpec == UnresolvedInit /\ [][WriteNext]_vars

\* the header of the snapshot lists a replacement period of the route that
\* ends at or after the header time
InReplacementWindow(row, route_id) ==
    \E i \in DOMAIN row.raw.header.trip_replacement_period :
        /\ row.raw.header.trip_replacement_period[i].route_id = route_id
        /\ row.raw.header.trip_replacement_period[i].end
               >= row.raw.header.timestamp

\* the log holds the record 'not scheduled or replaced' of the trip update
\* of the snapshot
LoggedNotScheduled(row) ==
    \E record \in log :
        /\ record.levelname = "WARNING"
        /\ record.msg = "TripUpdate trip  not scheduled or replaced"
        /\ record.trip_id = FeedUpdate(row).trip.trip_id
        /\ record.time = row.raw.header.timestamp

\* C29: a trip update that resolves to no scheduled trip, for want of a
\* mapping or because the mapping is ambiguous, is processed without error
\* and stored under the trip id of its descriptor, and the record 'not
\* scheduled or replaced' is logged exactly when the header lists no
\* replacement period of its route that ends at or after the header time.
C29_UnresolvedIsStoredAndLogged ==
    \A row \in realtime_raw :
        Resolved(FeedUpdate(row).trip) = None =>
            /\ process_row(self.cls, db, row).ok
            /\ rows = <<row>> =>
                   /\ StoredUnder(FeedUpdate(row).trip.trip_id)
                   /\ LoggedNotScheduled(row)
                          <=> ~InReplacementWindow(
                                  row, Get(FeedUpdate(row).trip.route_id))

\* a trip update whose short id two trips of its service day share was
\* processed inside a replacement window of its route that ends at the
\* header time: it is stored under its own id and nothing is logged
C29_Witness ==
    /\ realtime_raw \in UnresolvedRows
    /\ rows # <<>>
    /\ FeedUpdate(rows[1]).trip.trip_id = Short_010600_1_S
    /\ Cardinality(Mapped(Short_010600_1_S,
                          FeedUpdate(rows[1]).trip.start_date)) = 2
    /\ \E i \in DOMAIN rows[1].raw.header.trip_replacement_period :
          /\ rows[1].raw.header.trip_replacement_period[i].route_id = "R1"
          /\ rows[1].raw.header.trip_replacement_period[i].end
                 = rows[1].raw.header.timestamp
    /\ StoredUnder(Short_010600_1_S)
    /\ log = {}

-----------------------------------------------------------------------------
(* The cached lookups of MTARealtimeParser (mta_realtime_parser.py         *)
(* 109-205).  alru_cache keeps one future per key; the call that misses    *)
(* creates the task that runs the lookup, and every call of the key awaits *)
(* the future.  Control passes between the tasks at their awaits only.     *)

\* mta_realtime_parser.CACHE_SIZE, scaled down
CACHE_SIZE == 1

\* at most MaxLookups calls are made of the parser
MaxLookups == 2

\* mta_realtime_parser.py 109, 169, 180, 196: the maxsize of the decorator
\* of fn in MTARealtimeParser
MTARealtimeParser_maxsize(fn) ==
    IF fn = "get_stop_exists" THEN None ELSE Some(CACHE_SIZE)

\* realtime_writer.py 253, 313, 324, 340: the maxsize of the decorator of
\* _fn in RealtimeWriter, whose 4096 is scaled down as CACHE_SIZE is
RealtimeWriter_maxsize(fn) ==
    IF fn = "_get_stop_id_from_stop_seq" THEN Some(CACHE_SIZE) ELSE None

\* the maxsize of the decorator of fn in the class whose lookups are made:
\* MTARealtimeProcessor has a MTARealtimeParser,
\* RealtimeBatchProcessorDEPRECATED a RealtimeWriter
maxsize(fn) ==
    IF self.cls = "RealtimeBatchProcessorDEPRECATED"
    THEN RealtimeWriter_maxsize(fn)
    ELSE MTARealtimeParser_maxsize(fn)

\* rows of the stop_times table (stop_times.txt)
stop_times ==
    {[trip_id |-> AFA19GEN_1037_Sunday, stop_sequence |-> 1, stop_id |-> "S1"]}

\* _get_stop_id_from_stop_seq, lines 181-194: the stop of the trip at the
\* sequence number, or an Exception
get_stop_id_from_stop_seq(trip_id, stop_seq) ==
    IF \E r \in stop_times : r.trip_id = trip_id /\ r.stop_sequence = stop_seq
    THEN [stop_id |-> (CHOOSE r \in stop_times :
                          /\ r.trip_id = trip_id
                          /\ r.stop_sequence = stop_seq).stop_id]
    ELSE raised("Exception")

\* get_trip_row_from_descriptor, lines 144-152: the mta_trip_id rows of the
\* alternate id and the service day
select_mta_trip_id(trip_descriptor) ==
    {r \in mta_trip_id :
        /\ r.alternate_trip_id = trip_descriptor.trip_id
        /\ r.service_day = service_day_of(trip_descriptor.start_date)}

\* what fn(*arguments) reads from the schedule without any cache
uncached(fn, arguments) ==
    CASE fn = "get_trip_row_from_descriptor" ->
             get_trip_row_from_descriptor(arguments[1])
      [] fn = "get_trip_row_from_id" -> get_trip_row_from_id(arguments[1])
      [] fn = "_get_stop_id_from_stop_seq" ->
             get_stop_id_from_stop_seq(arguments[1], arguments[2])
      [] fn = "get_stop_exists" -> get_stop_exists(arguments[1])

\* a key that takes the trip id of a descriptor for the descriptor
make_key_by_trip_id(fn, arguments) ==
    IF fn = "get_trip_row_from_descriptor" THEN <<arguments[1].trip_id>>
    ELSE arguments

\* the key of alru_cache: the arguments of the call
make_key(fn, arguments) == arguments

\* the future of a cached call and the task that is to set it: the task
\* has not started, awaits no future and has selected no trip id
new_future(fn, arguments) ==
    [fn |-> fn, args |-> arguments, pc |-> "created", awaits |-> 0,
     trip_id |-> None, done |-> FALSE, result |-> None]

\* OrderedDict.move_to_end of the i-th entry
move_to_end(entries, i) ==
    [j \in 1..(Len(entries) - 1) |->
        IF j < i THEN entries[j] ELSE entries[j + 1]] \o <<entries[i]>>

\* the cache after an entry was added: beyond maxsize the least recently
\* used entry is dropped
popitem(entries, size) ==
    IF size # None /\ Len(entries) > Get(size) THEN Tail(entries) ELSE entries

\* a call of fn that misses: a future and its task are created and cached
missed(p, fn, key, arguments) ==
    [parser |-> [p EXCEPT
                    !.futures = Append(@, new_future(fn, arguments)),
                    !.cache[fn] =
                        popitem(Append(@, [key |-> key,
                                           fut |-> Len(p.futures) + 1]),
                                maxsize(fn))],
     fut    |-> Len(p.futures) + 1]

\* a call of fn that hits the i-th entry of the cache
hit(p, fn, i) ==
    [parser |-> [p EXCEPT !.cache[fn] = move_to_end(@, i)],
     fut    |-> p.cache[fn][i].fut]

\* the wrapper of alru_cache, up to its await: the parser afterwards and
\* the future the call awaits
wrapped_of(p, fn, key, arguments) ==
    IF \E i \in DOMAIN p.cache[fn] : p.cache[fn][i].key = key
    THEN hit(p, fn, CHOOSE i \in DOMAIN p.cache[fn] : p.cache[fn][i].key = key)
    ELSE missed(p, fn, key, arguments)

wrapped(p, fn, arguments) ==
    wrapped_of(p, fn, make_key(fn, arguments), arguments)

\* the task of future f is over with the result
set_result(p, f, result) ==
    [p EXCEPT !.futures[f].pc = "finished",
              !.futures[f].done = TRUE,
              !.futures[f].result = result]

\* the task of future f awaits a cached call of get_trip_row_from_id
await_trip_row_from_id(w, f, state) ==
    [w.parser EXCEPT !.futures[f].pc = state, !.futures[f].awaits = w.fut]

\* the trip descriptors, trip ids, stops and stop sequences that are looked up
LookupArguments(fn) ==
    CASE fn = "get_trip_row_from_descriptor" ->
             {<<[trip_id |-> trip_id, route_id |-> Some("R1"),
                 start_date |-> start_date]>> :
                 trip_id \in {AFA19GEN_1037_Sunday, Short_010600_1_S03R,
                              Short_010600_1_S},
                 start_date \in {<<2020, 3, 7>>, <<2020, 3, 8>>}}
      [] fn = "get_trip_row_from_id" ->
             {<<AFA19GEN_1037_Sunday>>, <<Short_010600_1_S>>}
      [] fn = "_get_stop_id_from_stop_seq" ->
             {<<AFA19GEN_1037_Sunday, 1>>, <<AFA19GEN_1037_Sunday, 2>>}
      [] fn = "get_stop_exists" -> {<<"S1">>, <<"S9">>}

cache_vars == <<call, realtime_raw, log, scraper, process_vars>>

\* a caller calls fn(*arguments) and awaits its future
Lookup(fn, arguments) ==
    /\ Len(parser.lookups) < MaxLookups
    /\ parser' = [wrapped(parser, fn, arguments).parser EXCEPT
                     !.lookups = Append(@, [fn |-> fn, args |-> arguments,
                                            fut |-> wrapped(parser, fn,
                                                            arguments).fut,
                                            result |-> None])]
    /\ UNCHANGED cache_vars

\* the future of the i-th lookup is done: the caller has its result
Return(i) ==
    /\ i \in DOMAIN parser.lookups
    /\ parser.lookups[i].result = None
    /\ parser.futures[parser.lookups[i].fut].done
    /\ parser' = [parser EXCEPT
                     !.lookups[i].result =
                         Some(parser.futures[parser.lookups[i].fut].result)]
    /\ UNCHANGED cache_vars

\* the task of get_trip_row_from_id, _get_stop_id_from_stop_seq or
\* get_stop_exists reads the schedule and is over
Read(f) ==
    /\ parser.futures[f].pc = "created"
    /\ parser.futures[f].fn # "get_trip_row_from_descriptor"
    /\ parser' = set_result(parser, f, uncached(parser.futures[f].fn,
                                                parser.futures[f].args))
    /\ UNCHANGED cache_vars

\* get_trip_row_from_descriptor, line 111: the call by the trip id of the
\* descriptor
ById(f) ==
    /\ parser.futures[f].pc = "created"
    /\ parser.futures[f].fn = "get_trip_row_from_descriptor"
    /\ parser' = await_trip_row_from_id(
                     wrapped(parser, "get_trip_row_from_id",
                             <<parser.futures[f].args[1].trip_id>>),
                     f, "by id")
    /\ UNCHANGED cache_vars

\* lines 111-113: the call by the trip id returns; its row is returned, or
\* the mta_trip_id table is to be read
AfterById(f) ==
    /\ parser.futures[f].pc = "by id"
    /\ parser.futures[parser.futures[f].awaits].done
    /\ parser' = IF parser.futures[parser.futures[f].awaits].result # None
                 THEN set_result(parser, f,
                                 parser.futures[parser.futures[f].awaits].result)
                 ELSE [parser EXCEPT !.futures[f].pc = "selecting"]
    /\ UNCHANGED cache_vars

\* lines 144-166: the mta_trip_id rows are read; None is returned unless
\* there is one
Select(f) ==
    /\ parser.futures[f].pc = "selecting"
    /\ parser' = IF Cardinality(select_mta_trip_id(
                                    parser.futures[f].args[1])) # 1
                 THEN set_result(parser, f, None)
                 ELSE [parser EXCEPT
                          !.futures[f].pc = "selected",
                          !.futures[f].trip_id =
                              Some(the(select_mta_trip_id(
                                           parser.futures[f].args[1])).trip_id)]
    /\ UNCHANGED cache_vars

\* line 167: the call by the trip id of the selected row
ByMapped(f) ==
    /\ parser.futures[f].pc = "selected"
    /\ parser' = await_trip_row_from_id(
                     wrapped(parser, "get_trip_row_from_id",
                             <<Get(parser.futures[f].trip_id)>>),
                     f, "by mapped id")
    /\ UNCHANGED cache_vars

\* line 167: the call by the selected trip id returns, and its row is
\* returned
AfterByMapped(f) ==
    /\ parser.futures[f].pc = "by mapped id"
    /\ parser.futures[parser.futures[f].awaits].done
    /\ parser' = set_result(parser, f,
                            parser.futures[parser.futures[f].awaits].result)
    /\ UNCHANGED cache_vars

\* a step of the task of future f
TaskStep(f) ==
    \/ Read(f)
    \/ ById(f) \/ AfterById(f)
    \/ Select(f)
    \/ ByMapped(f) \/ AfterByMapped(f)

CacheInit ==
    /\ realtime_raw = {}
    /\ self = [cls |-> "MTARealtimeProcessor", from_time |-> None]
    /\ RunInit

CacheNext ==
    \/ \E fn \in CachedFunctions :
          \E arguments \in LookupArguments(fn) : Lookup(fn, arguments)
    \/ \E f \in DOMAIN parser.futures : TaskStep(f)
    \/ \E i \in DOMAIN parser.lookups : Return(i)

CacheSpec == CacheInit /\ [][CacheNext]_vars

\* C30: whatever the order in which concurrent lookups and their tasks
\* take their steps, every lookup of a trip by descriptor, of a trip by
\* id, of a stop by trip and sequence number and of the existence of a
\* stop returns what a read of the schedule without a cache returns,
\* whether it hit the cache, missed it, shared the future of a call that
\* had not yet returned, or read again what had been dropped from the
\* cache.
C30_CachedEqualsUncached ==
    \A i \in DOMAIN parser.lookups :
        parser.lookups[i].result # None =>
            Get(parser.lookups[i].result)
                = uncached(parser.lookups[i].fn, parser.lookups[i].args)

\* a trip was looked up by its id; a lookup by descriptor then dropped its
\* entry from the cache and read the same trip again as the one its short
\* id is mapped to; both lookups have returned the trip
C30_Witness ==
    /\ Len(parser.lookups) = 2
    /\ parser.lookups[1].fn = "get_trip_row_from_id"
    /\ parser.lookups[2].fn = "get_trip_row_from_descriptor"
    /\ parser.lookups[2].args[1].trip_id = Short_010600_1_S03R
    /\ parser.lookups[1].result = Some(Some([trip_id |-> AFA19GEN_1037_Sunday]))
    /\ parser.lookups[2].result = parser.lookups[1].result
    /\ \E f, g \in DOMAIN parser.futures :
          /\ f # g
          /\ parser.futures[f].fn = parser.futures[g].fn
          /\ parser.futures[f].args = parser.futures[g].args

\* two lookups of the same key share one future
Coalesced ==
    /\ Len(parser.lookups) = 2
    /\ parser.lookups[1].fut = parser.lookups[2].fut
    /\ parser.lookups[1].result # None
    /\ parser.lookups[2].result # None

-----------------------------------------------------------------------------
(* The sizes of the caches, of MTARealtimeParser and of RealtimeWriter *)

\* the lookups are made of the parser of a MTARealtimeProcessor or of the
\* writer of a RealtimeBatchProcessorDEPRECATED
LruInit ==
    /\ realtime_raw = {}
    /\ self \in {p \in Processors : p.from_time = None}
    /\ RunInit

LruSpec == LruInit /\ [][CacheNext]_vars

\* the keys in the cache of fn
cached_keys(p, fn) == {p.cache[fn][i].key : i \in DOMAIN p.cache[fn]}

\* the cache of fn holds at most CACHE_SIZE entries
Bounded(fn) == Len(parser.cache[fn]) <= CACHE_SIZE

\* C31: at every point of a run the cache of the lookup by descriptor and
\* the cache of the lookup by trip id hold at most CACHE_SIZE entries each,
\* in MTARealtimeParser and in RealtimeWriter.
C31_TripCachesAreBounded ==
    /\ Bounded("get_trip_row_from_descriptor")
    /\ Bounded("get_trip_row_from_id")

\* the caches of MTARealtimeParser that have a maxsize hold at most
\* CACHE_SIZE entries
ParserCachesAreBounded ==
    self.cls = "MTARealtimeProcessor" =>
        /\ Bounded("get_trip_row_from_descriptor")
        /\ Bounded("get_trip_row_from_id")
        /\ Bounded("_get_stop_id_from_stop_seq")

\* a cache of MTARealtimeParser that has a maxsize drops a key only when
\* it is full and a key is added, and the key it drops is the least
\* recently used one
ParserEvictsLeastRecentlyUsed ==
    [][self.cls = "MTARealtimeProcessor" =>
           \A fn \in CachedFunctions \ {"get_stop_exists"} :
               \A key \in cached_keys(parser, fn) \ cached_keys(parser', fn) :
                   /\ Len(parser.cache[fn]) = CACHE_SIZE
                   /\ key = parser.cache[fn][1].key
                   /\ cached_keys(parser', fn) \ cached_keys(parser, fn) # {}]_vars

\* no cache without a maxsize ever drops a key
UnboundedNeverEvicts ==
    [][\A fn \in CachedFunctions :
           maxsize(fn) = None =>
               cached_keys(parser, fn) \subseteq cached_keys(parser', fn)]_vars

\* the parser has dropped a trip id from a full cache
ParserEvicted ==
    /\ self.cls = "MTARealtimeProcessor"
    /\ Len(parser.cache["get_trip_row_from_id"]) = CACHE_SIZE
    /\ \E f \in DOMAIN parser.futures :
          /\ parser.futures[f].fn = "get_trip_row_from_id"
          /\ \A i \in DOMAIN parser.cache["get_trip_row_from_id"] :
                parser.cache["get_trip_row_from_id"][i].fut # f

\* the cache of stops holds more than CACHE_SIZE stops
StopsExceedCacheSize ==
    Len(parser.cache["get_stop_exists"]) > CACHE_SIZE

\* the writer's cache of trip ids holds more than CACHE_SIZE trip ids
WriterExceedsCacheSize ==
    /\ self.cls = "RealtimeBatchProcessorDEPRECATED"
    /\ Len(parser.cache["get_trip_row_from_id"]) > CACHE_SIZE

-----------------------------------------------------------------------------
(* Pages of a processor without groups (process_as_chunks) *)

\* the lists of l one after the other
RECURSIVE chain(_)
chain(l) == IF l = <<>> THEN <<>> ELSE Head(l) \o chain(Tail(l))

\* the rows of the page that are in process_row
InFlight == {i \in 1..Len(task) : task[i] = "running"}

\* the chunks are at most CHUNK_SIZE rows each, none is empty, and one
\* after the other they are the page
ChunksCoverPage ==
    /\ chain(chunk(rows, CHUNK_SIZE)) = rows
    /\ \A k \in DOMAIN chunk(rows, CHUNK_SIZE) :
          Len(chunk(rows, CHUNK_SIZE)[k]) \in 1..CHUNK_SIZE

\* a row has entered process_row only if every row of the chunks before
\* its chunk has returned
ChunksInOrder ==
    \A i, j \in 1..Len(rows) :
        task[i] # "pending" /\ chunk_of(j) < chunk_of(i) => task[j] = "done"

\* a page is counted only when every row of it has returned
CountedPageIsDone ==
    rows # <<>> /\ checkpoint = Some(checkpoint_data(rows)) =>
        /\ \A i \in 1..Len(rows) : task[i] = "done"
        /\ Range(rows) \subseteq done

\* a row of the page enters process_row once and returns from it once, and
\* no row of a page has been in process_row before the page is fetched
OncePerRow ==
    /\ rows' = rows =>
          \A i \in 1..Len(rows) :
              /\ task[i] # "pending" => task'[i] # "pending"
              /\ task[i] \in {"done", "raised"} => task'[i] = task[i]
    /\ rows' # rows /\ pc' = "processing" => Range(rows') \cap started = {}

\* C32: without a grouping key every row of a page is processed exactly
\* once: the chunks of at most CHUNK_SIZE rows are, one after the other,
\* the page; a row enters process_row only after every row of the chunks
\* before has returned, so at most CHUNK_SIZE rows are in process_row at
\* any time; and the page is counted when every row of it has returned.
C32_ChunksOfPage ==
    /\ [](Len(groups) = 0 =>
            /\ ChunksCoverPage
            /\ ChunksInOrder
            /\ Cardinality(InFlight) <= CHUNK_SIZE
            /\ CountedPageIsDone)
    /\ [][Len(groups) = 0 => OncePerRow]_vars

\* a page of more than CHUNK_SIZE rows without a grouping key: the first
\* chunk was in process_row at once and has returned, the next chunk is in
\* process_row
C32_Witness ==
    /\ Len(groups) = 0
    /\ Len(rows) > CHUNK_SIZE
    /\ \A i \in 1..CHUNK_SIZE : task[i] = "done"
    /\ task[CHUNK_SIZE + 1] = "running"

\* the rows of a full chunk are in process_row at once
ChunkConcurrent ==
    /\ Len(groups) = 0
    /\ Len(task) >= CHUNK_SIZE
    /\ \A i \in 1..CHUNK_SIZE : task[i] = "running"

-----------------------------------------------------------------------------
(* The start of a run: the checkpoint it resumes from (_main, lines        *)
(* 187-195).  The text of --checkpoint or of the persisted checkpoint of   *)
(* the job may be any text.                                                *)

\* `if args.checkpoint:`: an option that is absent or the empty string is
\* not taken
given(option) == option # None /\ Get(option) # ""

\* read_checkpoint, lines 153-163: the checkpoint text of the row of the
\* job with the greatest time
read_checkpoint_str(tbl, job_name) ==
    IF \E i \in 1..Len(tbl) : tbl[i].job_name = job_name
    THEN Some(tbl[CHOOSE i \in 1..Len(tbl) :
                     /\ tbl[i].job_name = job_name
                     /\ \A j \in 1..Len(tbl) :
                           tbl[j].job_name = job_name
                               => tbl[j].time <= tbl[i].time].checkpoint)
    ELSE None

\* a start that reads the persisted checkpoint of the job first
checkpoint_text_persisted_first(a, tbl) ==
    IF given(a.job_name) /\ read_checkpoint_str(tbl, Get(a.job_name)) # None
    THEN read_checkpoint_str(tbl, Get(a.job_name))
    ELSE IF given(a.checkpoint) THEN a.checkpoint
    ELSE None

\* _main, lines 187-191: the text the starting checkpoint is loaded from
checkpoint_text(a, tbl) ==
    IF given(a.checkpoint) THEN a.checkpoint
    ELSE IF given(a.job_name) THEN read_checkpoint_str(tbl, Get(a.job_name))
    ELSE None

\* Checkpoint.loads, lines 48-55: the fields, or the exception of
\* json.loads, of .items() of a value that is no dict, or of
\* _deserialize_value
loads_or_raised(cls, serialized) ==
    IF raises(json_loads(py_str(serialized)))
    THEN json_loads(py_str(serialized))
    ELSE IF json_loads(py_str(serialized)).py # "dict"
    THEN raised("AttributeError")
    ELSE Checkpoint_loads(cls, py_str(serialized))

\* Checkpoint.as_list, lines 57-65: the fields in the order of the columns,
\* or an exception
as_list_or_raised(fields, columns) ==
    IF Len(columns) # Cardinality(DOMAIN fields) THEN raised("Exception")
    ELSE IF \E i \in 1..Len(columns) : columns[i] \notin DOMAIN fields
    THEN raised("KeyError")
    ELSE [list |-> [i \in 1..Len(columns) |-> fields[columns[i]]]]

\* the checkpoint of the fields that were loaded, or the exception of
\* as_list in get_query
checkpoint_of_fields(fields) ==
    IF raises(fields) THEN fields
    ELSE IF raises(as_list_or_raised(fields, cols))
    THEN as_list_or_raised(fields, cols)
    ELSE [checkpoint |-> Some(columns_of(fields))]

\* a start that takes a checkpoint it cannot read for none
startup_checkpoint_or_none(cls, a, tbl) ==
    IF checkpoint_text(a, tbl) = None THEN [checkpoint |-> None]
    ELSE IF raises(checkpoint_of_fields(
                       loads_or_raised(CheckpointCls(cls),
                                         Get(checkpoint_text(a, tbl)))))
    THEN [checkpoint |-> None]
    ELSE checkpoint_of_fields(loads_or_raised(CheckpointCls(cls),
                                         Get(checkpoint_text(a, tbl))))

\* _main, lines 187-194: the checkpoint the query starts after, or the
\* exception that is raised
startup_checkpoint(cls, a, tbl) ==
    IF checkpoint_text(a, tbl) = None THEN [checkpoint |-> None]
    ELSE checkpoint_of_fields(loads_or_raised(CheckpointCls(cls),
                                         Get(checkpoint_text(a, tbl))))

\* the text cannot be read as a checkpoint of the ordering columns by the
\* checkpoint class of processor cls
Unreadable(cls, text) ==
    \/ raises(loads_or_raised(CheckpointCls(cls), text))
    \/ raises(as_list_or_raised(loads_or_raised(CheckpointCls(cls), text),
                                cols))

\* the fields are what the columns hold: an aware datetime and a str
OfColumnTypes(fields) ==
    /\ fields["update_time"].py = "datetime"
    /\ fields["update_time"].utcoffset # None
    /\ fields["feed_id"].py = "str"

\* the texts of --checkpoint and of the batch_checkpoints table: the
\* empty text, a text that is not JSON, the texts of the other values and
\* the checkpoints of the rows, in the formats of both checkpoint classes.  A
\* text that loads as a value the database would have to compare with the
\* column is left out.
CheckpointTexts(cls) ==
    {text \in {"", "garbage"}
                 \cup {json_text(d) : d \in OtherDocuments}
                 \cup {dumps(c, [update_time |-> t, feed_id |-> "1"]) :
                          c \in CheckpointClasses, t \in 1..MaxTime} :
        Unreadable(cls, text)
            \/ OfColumnTypes(loads_or_raised(CheckpointCls(cls), text))}

\* the command lines: any text as --checkpoint, with or without a job
\* name, which may be the empty text
StartupArgs(cls) ==
    [checkpoint : {None} \cup {Some(text) : text \in CheckpointTexts(cls)},
     limit      : {None},
     job_name   : {None} \cup {Some(j) : j \in JobNames \cup {""}}]

\* the batch_checkpoints table before the run: empty, or one checkpoint of
\* the job, of any text
Persisted(cls) ==
    {<<>>} \cup {<<[job_name |-> j, time |-> 1, checkpoint |-> text]>> :
                    j \in JobNames, text \in CheckpointTexts(cls)}

\* _main, lines 173-195: the command line is parsed and the starting
\* checkpoint is loaded; an exception ends the run, else the query is
\* executed
Startup(a) ==
    /\ pc = "idle"
    /\ args' = a
    /\ prev' = [pc |-> pc, args |-> args, started |-> started, rows |-> <<>>]
    /\ IF raises(startup_checkpoint(self.cls, a, batch_checkpoints))
       THEN /\ pc' = "failed"
            /\ UNCHANGED <<checkpoint, query, res>>
       ELSE /\ pc' = "fetching"
            /\ checkpoint' =
                   startup_checkpoint(self.cls, a, batch_checkpoints).checkpoint
            /\ query' = get_query(self, realtime_raw, checkpoint', a.limit)
            /\ res' = query'
    /\ UNCHANGED <<parser, call, log, scraper, realtime_raw, self, db,
                   batch_checkpoints, rows, task, rowcount, started, done,
                   written>>

StartupInit ==
    /\ realtime_raw = {raw_row(t, "1", t, <<>>) : t \in 1..MaxTime}
    /\ self \in {p \in Processors : p.from_time = None}
    /\ NotRunning
    /\ call = not_called

\* the table holds what was persisted before the run
Persist ==
    /\ pc = "idle"
    /\ batch_checkpoints = <<>>
    /\ batch_checkpoints' \in Persisted(self.cls) \ {<<>>}
    /\ UNCHANGED <<parser, call, log, scraper, realtime_raw, self, db, pc,
                   args, checkpoint, res, rows, rowcount, task, query,
                   started, done, written, prev>>

StartupNext ==
    \/ Persist
    \/ \E a \in StartupArgs(self.cls) : Startup(a)
    \/ RunStep

StartupSpec == StartupInit /\ [][StartupNext]_vars

\* the batch_checkpoints table as the run found it
AtStartup == SubSeq(batch_checkpoints, 1, Len(batch_checkpoints) - written)

\* the run was to resume from a checkpoint that cannot be read
CannotRead ==
    /\ pc # "idle"
    /\ checkpoint_text(args, AtStartup) # None
    /\ Unreadable(self.cls, Get(checkpoint_text(args, AtStartup)))

\* C33: a run whose checkpoint, supplied as --checkpoint or persisted
\* under its job name, cannot be deserialized or has not the ordering
\* columns as its fields fails before its query is executed: no row is
\* fetched or processed, nothing is stored and no checkpoint is written.
C33_UnreadableCheckpointIsFatal ==
    CannotRead =>
        /\ pc = "failed"
        /\ query = <<>> /\ rows = <<>>
        /\ started = {} /\ done = {}
        /\ db = EmptyStore
        /\ written = 0

\* a run that was given a --checkpoint that is not JSON has failed, and a
\* run whose job has a persisted checkpoint of one field has failed, both
\* over a table that holds rows
C33_Witness ==
    /\ pc = "failed"
    /\ realtime_raw # {}
    /\ \/ args.checkpoint = Some("garbage")
       \/ /\ args.checkpoint = None
          /\ args.job_name # None
          /\ Len(batch_checkpoints) = 1
          /\ batch_checkpoints[1].checkpoint = "{\"feed_id\":\"1\"}"
    /\ CannotRead

\* a persisted checkpoint that cannot be read has ended a run
PersistedUnreadable ==
    /\ CannotRead
    /\ ~given(args.checkpoint)

\* a run has resumed from a checkpoint and is done
ResumedFromReadable ==
    /\ pc = "done"
    /\ checkpoint_text(args, AtStartup) # None
    /\ ~Unreadable(self.cls, Get(checkpoint_text(args, AtStartup)))
    /\ done # {}

-----------------------------------------------------------------------------
(* What process_trip_update deletes from realtime_stop_times2 *)

\* the rows of realtime_stop_times2 that a step removes: their key has no
\* row afterwards
Deleted ==
    {r \in db.realtime_stop_times2 :
        \A q \in db'.realtime_stop_times2 :
            key_of(q, <<"system", "route_id", "start_date", "trip_id",
                        "train_id", "stop_id">>)
                # key_of(r, <<"system", "route_id", "start_date", "trip_id",
                             "train_id", "stop_id">>)}

\* the message of the row that a step processes
Processing == message_of(self.cls, rows'[1])

\* a step of MTARealtimeProcessor that processes a row
ProcessorStep ==
    /\ self.cls = "MTARealtimeProcessor"
    /\ db' # db
    /\ rows' # <<>>

\* C34: a row of realtime_stop_times2 whose time is after the timestamp of
\* the message that MTARealtimeProcessor processes is not deleted by the
\* delete of the outdated stops, so that an older snapshot processed after
\* newer ones removes nothing the newer ones wrote.
C34_DeleteKeepsNewerRows ==
    [][ProcessorStep =>
           \A r \in Deleted : r.time <= Processing.timestamp]_vars

\* nothing is deleted when the trip of the message has no entry of an
\* earlier time in realtime_raw_stop_times, or the message lists no stop
DeletesNothingWithoutHistoryOrStops ==
    [][(/\ ProcessorStep
        /\ \A i \in 1..Len(Processing.trip_updates) :
              \/ Len(Processing.trip_updates[i].stop_time_updates) = 0
              \/ previous_stop_times(db.realtime_raw_stop_times,
                                     trip_key(Processing.trip_updates[i]),
                                     Processing) = <<>>)
           => Deleted = {}]_vars

\* only stops that the latest earlier entry of the trip lists and the
\* message omits are deleted
DeletesOnlyOmittedStops ==
    [][ProcessorStep =>
           \A r \in Deleted :
               \E i \in 1..Len(Processing.trip_updates) :
                   /\ \A j \in 1..Len(Processing.trip_updates[i].stop_time_updates) :
                         Processing.trip_updates[i].stop_time_updates[j].stop_id
                             # r.stop_id
                   /\ r.stop_id \in
                          outdated_stop_ids(
                              previous_stop_times(db.realtime_raw_stop_times,
                                                  trip_key(Processing.trip_updates[i]),
                                                  Processing),
                              Processing.trip_updates[i].stop_time_updates,
                              Processing)]_vars

-----------------------------------------------------------------------------
(* The live capture beside a named replay job.  process_feed takes          *)
(* request_time when get_data has returned (scraper_job.py 23-24) and       *)
(* inserts the snapshot after it has acquired a connection (40-55); the     *)
(* coroutines of the feeds and the process of the job go on in between.     *)

\* process_feed as scrape starts it: pc is downloading | inserting |
\* returned, request_time its local once get_data has returned
capture == [pc |-> "downloading", request_time |-> None]

\* the greatest of a set of clock readings, 0 for none
latest(S) == IF S = {} THEN 0 ELSE CHOOSE t \in S : \A u \in S : u <= t

\* a clock reading that no later reading of datetime.now is before: the
\* greatest request_time taken so far
clock ==
    latest({r.update_time : r \in realtime_raw}
               \cup {Get(scraper.coros[f].request_time) :
                        f \in {g \in DOMAIN scraper.coros :
                                  scraper.coros[g].request_time # None}})

\* scrape, lines 81-87: process_feed is started for every feed
LiveScrape ==
    /\ scraper.pc = "idle"
    /\ scraper' = [scraper EXCEPT !.pc = "gathering",
                                  !.coros = [f \in Feeds |-> capture]]
    /\ UNCHANGED <<log, realtime_raw, replay_vars>>

\* process_feed, lines 23-24: get_data returns and request_time is taken
Downloaded(f, t) ==
    /\ scraper.pc = "gathering"
    /\ scraper.coros[f].pc = "downloading"
    /\ t >= clock
    /\ scraper' = [scraper EXCEPT !.coros[f] = [pc |-> "inserting",
                                                request_time |-> Some(t)]]
    /\ UNCHANGED <<log, realtime_raw, replay_vars>>

\* process_feed, lines 40-55: the insert is executed, with the request_time
\* as update_time; the snapshot is of the header time of its download
Inserted(f) ==
    /\ scraper.pc = "gathering"
    /\ scraper.coros[f].pc = "inserting"
    /\ realtime_raw' =
           process_feed_insert(realtime_raw,
                               raw_row(Get(scraper.coros[f].request_time), f,
                                       Get(scraper.coros[f].request_time), <<>>))
    /\ scraper' = [scraper EXCEPT !.coros[f].pc = "returned"]
    /\ UNCHANGED <<log, replay_vars>>

LiveInit ==
    /\ realtime_raw = {}
    /\ self = [cls |-> "MTARealtimeProcessor", from_time |-> None]
    /\ RunInit

LiveNext ==
    \/ LiveScrape
    \/ \E f \in Feeds : \E t \in 1..MaxTime : Downloaded(f, t)
    \/ \E f \in Feeds : Inserted(f)
    \/ ReplayStart \/ ReplayResume \/ RunStep

LiveSpec == LiveInit /\ [][LiveNext]_vars

\* the checkpoints that are persisted
PersistedCursors ==
    {loads(CheckpointCls(self.cls), batch_checkpoints[i].checkpoint) :
        i \in 1..Len(batch_checkpoints)}

\* C35: no snapshot is committed to realtime_raw with an ordering key
\* (update_time, feed_id) at or before a checkpoint that the named job has
\* persisted, so that every committed snapshot is in the query of the run
\* or of a run resumed from the checkpoint.
C35_CommittedAfterCheckpoints ==
    [][\A r \in realtime_raw' \ realtime_raw :
           \A c \in PersistedCursors : AfterCheckpoint(r, c)]_vars

\* a snapshot is in the table at or before the latest checkpoint of the job
\* and no run has processed it
LostSnapshot ==
    /\ batch_checkpoints # <<>>
    /\ \E r \in realtime_raw :
          /\ ~AfterCheckpoint(r, loads(CheckpointCls(self.cls),
                                       Last(batch_checkpoints).checkpoint))
          /\ r \notin started
          /\ r \notin prev.started
    /\ pc = "done"
    /\ prev.pc # "idle"

\* a snapshot is committed whose request_time is before the update_time of
\* a checkpoint of the job
CommittedLate ==
    \E r \in realtime_raw :
        /\ \E c \in PersistedCursors : r.update_time < c.update_time
        /\ r \notin started
        /\ r \notin prev.started

\* a snapshot that was committed before the query of a run was executed
\* and is after the checkpoint the run started from is in the query
CommittedBeforeQueryIsRead ==
    [][(pc \in {"idle", "done", "failed"}) /\ pc' = "fetching" =>
           \A r \in realtime_raw :
               checkpoint' = None \/ AfterCheckpoint(r, Get(checkpoint'))
                   => r \in Range(query')]_vars


-----------------------------------------------------------------------------
(* The upserts of the stop times, executed in any order and number         *)

\* a TripUpdate entity of trip X on route R1 in the snapshot of header time
\* t: due at its stops at FarTime + t, with its own timestamp or without
timed_trip_update_pb(t, stop_ids, timestamp) ==
    trip_update_of(trip_pb(AFA19GEN_1037_Sunday, Some("R1"), "20200302"),
                   [i \in 1..Len(stop_ids) |->
                       stop_time_update_pb(stop_ids[i], Some(FarTime + t), None)],
                   timestamp)

\* snapshots of feed 1 of distinct header times; the trip update of a
\* snapshot carries no timestamp or the greatest header time
UpsertRows ==
    UNION {{{raw_row(t, FeedIds[1], t,
                     <<trip_update_entity(
                           timed_trip_update_pb(t, u[t][1], u[t][2]))>>) :
                t \in T} :
               u \in [T -> ReplayStopLists \X {None, Some(MaxSnapshots)}]} :
             T \in SUBSET (1..MaxSnapshots)}

\* the upsert a processor of class cls executes for a trip update: one
\* statement [ok, tbl], or none
upsert_statements(cls, d, update, message) ==
    IF cls = "MTARealtimeProcessor"
    THEN <<upsert_stop_times2(d.realtime_stop_times2, update, message)>>
    ELSE write_trip_update(d.realtime_stop_times, update, message)

\* the table the upsert of a processor of class cls writes
upsert_table(cls) ==
    IF cls = "MTARealtimeProcessor" THEN "realtime_stop_times2"
    ELSE "realtime_stop_times"

\* the freshness column of that table, the one the WHERE compares
freshness(cls) == IF cls = "MTARealtimeProcessor" THEN "time" ELSE "update_time"

\* the upsert of the n-th trip update of the snapshot `row` is executed; the
\* snapshot is recorded in `done`
Upsert(row, n) ==
    /\ n \in 1..Len(message_of(self.cls, row).trip_updates)
    /\ LET message == message_of(self.cls, row)
           statement == upsert_statements(self.cls, db,
                                          message.trip_updates[n], message)
       IN /\ Len(statement) = 1
          /\ statement[1].ok
          /\ db' = [db EXCEPT ![upsert_table(self.cls)] = statement[1].tbl]
    /\ rows' = <<row>>
    /\ done' = done \cup {row}
    /\ UNCHANGED <<parser, call, scraper, log, realtime_raw, self,
                   batch_checkpoints, pc, args, checkpoint, res, rowcount,
                   task, query, started, written, prev>>

UpsertInit ==
    /\ realtime_raw \in UpsertRows
    /\ self \in {p \in Processors : p.from_time = None}
    /\ RunInit

UpsertNext == \E row \in realtime_raw : \E n \in 1..MaxRows : Upsert(row, n)

UpsertSpec == UpsertInit /\ [][UpsertNext]_vars

\* the rows of the upserts that have executed
Upserted == UNION {issued(self.cls, row) : row \in done}

\* the rows of the executed upserts to the key of the row v
SameKey(v) ==
    {w \in Upserted : key_of(w, conflict_key(self.cls))
                          = key_of(v, conflict_key(self.cls))}

\* the freshness timestamps of the rows of S are pairwise distinct
PairwiseDistinct(S) ==
    \A a, b \in S : a # b => a[freshness(self.cls)] # b[freshness(self.cls)]

\* the row of S of the greatest freshness
Freshest(S) ==
    CHOOSE v \in S : \A w \in S : w[freshness(self.cls)] <= v[freshness(self.cls)]

TiedUpserts == \E v \in Upserted : ~PairwiseDistinct(SameKey(v))

\* of upserts of one freshness timestamp, the row of the one executed last
\* is stored
LastOfTiedIsStored ==
    [][\A v \in issued(self.cls, rows'[1]) : v \in db'[upsert_table(self.cls)]
          \/ \E r \in db[upsert_table(self.cls)] :
                /\ r \in conflicting(db[upsert_table(self.cls)], v,
                                     conflict_key(self.cls))
                /\ v[freshness(self.cls)] < r[freshness(self.cls)]]_vars


-----------------------------------------------------------------------------
(* The stop time events of one trip update that share a row key            *)

\* the positions of the stop time events of the update that give a row
mapped_events(update, message) ==
    {i \in 1..Len(update.stop_time_updates) :
        get_insert_values(update.stop_time_updates[i], update, message) # None}

\* the row of the i-th stop time event of the update
event_row(update, message, i) ==
    Get(get_insert_values(update.stop_time_updates[i], update, message))

\* the last of the stop time events of the update that give a row of the
\* key of the i-th
last_event(update, message, i) ==
    CHOOSE j \in mapped_events(update, message) :
        /\ insert_key(event_row(update, message, j))
               = insert_key(event_row(update, message, i))
        /\ \A k \in mapped_events(update, message) :
               insert_key(event_row(update, message, k))
                   = insert_key(event_row(update, message, i)) => k <= j

\* the trip updates RealtimeWriter writes for the snapshot `row`
written_updates(row) ==
    {u \in Range(parse_feed_message(row.feed_id, row.raw).trip_updates) :
        is_valid_trip_descriptor(u.trip)}

\* C37: of the stop time events of one trip update that map to one row key,
\* RealtimeWriter upserts one row, and it is the row of the event that is
\* last in the stop time list: the statement holds that row and no other of
\* the key, and once the snapshot is processed the stored row of the key
\* carries that event's arrival and departure.
C37_LastEventOfKeyIsKept ==
    self.cls = "RealtimeBatchProcessorDEPRECATED" =>
        \A row \in realtime_raw :
            LET message == parse_feed_message(row.feed_id, row.raw)
            IN \A update \in written_updates(row) :
                   \A i \in mapped_events(update, message) :
                       LET kept == event_row(update, message,
                                             last_event(update, message, i))
                           upserted == insert_values(update, message)
                       IN /\ {upserted[k] : k \in {n \in 1..Len(upserted) :
                                 insert_key(upserted[n]) = insert_key(kept)}}
                                = {kept}
                          /\ rows = <<row>> =>
                                \E r \in db.realtime_stop_times :
                                    /\ insert_key(r) = insert_key(kept)
                                    /\ r.arrival = kept.arrival
                                    /\ r.departure = kept.departure

\* a snapshot was processed whose trip update has two events at one stop,
\* the first with an arrival and the second with a departure: the stored
\* row of the stop has the departure and no arrival
C37_Witness ==
    /\ self.cls = "RealtimeBatchProcessorDEPRECATED"
    /\ rows # <<>>
    /\ \E update \in written_updates(rows[1]) :
          LET stus == update.stop_time_updates
          IN /\ Len(stus) = 2
             /\ stus[1].stop_id = stus[2].stop_id
             /\ stus[1].arrival # None /\ stus[1].departure = None
             /\ stus[2].arrival = None /\ stus[2].departure # None
             /\ \E r \in db.realtime_stop_times :
                   /\ db.realtime_stop_times = {r}
                   /\ r.stop_id = stus[2].stop_id
                   /\ r.arrival = None
                   /\ r.departure = stus[2].departure

\* an event without arrival and departure gives no row: when it is the last
\* at its stop, the row of the earlier event is stored
LastEventWithoutTimes ==
    /\ self.cls = "RealtimeBatchProcessorDEPRECATED"
    /\ rows # <<>>
    /\ \E update \in written_updates(rows[1]) :
          LET stus == update.stop_time_updates
          IN /\ Len(stus) = 2
             /\ stus[1].stop_id = stus[2].stop_id
             /\ stus[1].arrival # None
             /\ stus[2].arrival = None /\ stus[2].departure = None
             /\ \E r \in db.realtime_stop_times : r.arrival = stus[1].arrival


-----------------------------------------------------------------------------
(* What the caller of scrape sees                                          *)

\* tasks.scraper: `await scrape()` and then Response(None, HTTPStatus.OK);
\* an exception of scrape leaves the handler
scraper_response(result) ==
    IF raises(result) THEN result ELSE [status_code |-> 200, body |-> None]

\* the feeds of the run that gave up
GaveUp == {f \in DOMAIN scraper.coros : scraper.coros[f].pc = "raised"}

\* the record scrape logs for a feed that gave up
ErrorRecord(f) ==
    [levelname |-> "ERROR", msg |-> "Error with NYC MTA feed", feed_id |-> f]

\* C38: scrape always completes normally, however many feeds gave up: the
\* run that is gathering ends as done and never as raised; the error of a
\* feed that gave up is logged; what scrape returns, and the response of its
\* caller, are those of a run in which no feed gave up.
C38_ScrapeCompletesNormally ==
    /\ [](scraper.pc # "raised")
    /\ (scraper.pc = "gathering") ~> (scraper.pc = "done")
    /\ [](scraper.pc = "done" =>
             /\ \A f \in GaveUp : ErrorRecord(f) \in log
             /\ scrape_return(scraper.coros)
                    = scrape_return([f \in Feeds |-> returns(coroutine)])
             /\ scraper_response(scrape_return(scraper.coros))
                    = scraper_response(
                          scrape_return([f \in Feeds |-> returns(coroutine)])))

\* a run of scrape has ended in which every feed gave up
C38_Witness ==
    /\ scraper.pc = "done"
    /\ GaveUp = Feeds
    /\ \A f \in Feeds : ErrorRecord(f) \in log

\* a run of scrape has ended in which every feed was captured
AllCaptured ==
    /\ scraper.pc = "done"
    /\ GaveUp = {}


-----------------------------------------------------------------------------
(* The schedule import and the lookup of its short trip ids                *)

\* more trip ids of trips.txt: a weekday trip, and a trip whose id has no
\* path identifier
AFA19GEN_1037_Weekday ==
    concat(concat(SubSeq(AFA19GEN_1037_Sunday, 1, 14), WEEKDAY),
           SubSeq(AFA19GEN_1037_Sunday, 21, Len(AFA19GEN_1037_Sunday)))
AFA19GEN_1039_Sunday ==
    concat(concat(SubSeq(AFA19GEN_1037_Sunday, 1, 12), <<"9">>),
           SubSeq(AFA19GEN_1037_Sunday, 14, Len(AFA19GEN_1037_Sunday) - 3))

\* the most trips of a trips.txt
MaxTrips == 3

\* the trips.txt files: up to MaxTrips trip ids, one of which may be an id
\* that is not of the grammar
TripsTxts ==
    {T \in SUBSET {AFA19GEN_1037_Sunday, AFA19GEN_1038_Sunday,
                   AFA19GEN_1037_Saturday, AFA19GEN_1037_Weekday,
                   AFA19GEN_1039_Sunday, Nonsense} :
        Cardinality(T) <= MaxTrips}

\* IMPORT_SPECS, lines 88-101, and import_generic, lines 180-185: the row
\* spec of a row of trips.txt for the table trips, with the columns of its
\* primary key
trips_row_spec(trip_id) ==
    <<[col |-> "system", val |-> py_str(system)],
      [col |-> "trip_id", val |-> py_str(trip_id)]>>

\* a row spec with the first short id only
mta_trip_id_row_spec_first(trip_id) ==
    trips_row_spec(trip_id)
        \o <<[col |-> "alternate_trip_id",
              val |-> py_str(short_trip_ids(trip_id)[1])],
             [col |-> "service_day",
              val |-> py_str(parse_trip_id(trip_id).service_day)]>>

\* IMPORT_SPECS, lines 102-112, and import_generic, lines 180-185: the row
\* spec of a row of trips.txt for the table mta_trip_id
mta_trip_id_row_spec(trip_id) ==
    trips_row_spec(trip_id)
        \o <<[col |-> "alternate_trip_id",
              val |-> CartesianProduct(
                          [i \in 1..2 |-> py_str(short_trip_ids(trip_id)[i])])],
             [col |-> "service_day",
              val |-> py_str(parse_trip_id(trip_id).service_day)]>>

\* import_generic over trips.txt for the tables trips and mta_trip_id, in
\* the order of IMPORT_SPECS: the rows of the two tables, or the exception
\* of parse_trip_id, which is raised before a row of mta_trip_id is inserted
import_generic(trips_txt) ==
    IF \E trip_id \in trips_txt : raises(parse_trip_id(trip_id))
    THEN raised("Exception")
    ELSE [trips       |-> UNION {Range(get_db_rows(trips_row_spec(trip_id))) :
                                    trip_id \in trips_txt},
          mta_trip_id |-> UNION {Range(get_db_rows(mta_trip_id_row_spec(trip_id))) :
                                    trip_id \in trips_txt}]

\* get_trip_row_from_id on the imported tables
get_trip_row_from_id_in(schedule, trip_id) ==
    LET found == {r \in schedule.trips : /\ r.system = py_str(system)
                                         /\ r.trip_id = py_str(trip_id)}
    IN IF found = {} THEN None ELSE Some(the(found))

\* get_trip_row_from_descriptor on the imported tables
get_trip_row_from_descriptor_in(schedule, trip_descriptor) ==
    LET row == get_trip_row_from_id_in(schedule, trip_descriptor.trip_id)
        alt == {r \in schedule.mta_trip_id :
                   /\ r.system = py_str(system)
                   /\ r.alternate_trip_id = py_str(trip_descriptor.trip_id)
                   /\ r.service_day
                          = py_str(service_day_of(trip_descriptor.start_date))}
    IN IF row # None THEN row
       ELSE IF Cardinality(alt) # 1 THEN None
       ELSE get_trip_row_from_id_in(schedule, the(alt).trip_id.v)

\* the trip descriptors of the feed: a short id of a trip of the schedule,
\* a full id or an unknown id, on a Monday, a Friday, a Saturday or a Sunday
ScheduleDescriptors ==
    {parse_trip_descriptor(trip_pb(trip_id, Some("R1"), start_date)) :
        trip_id \in {AFA19GEN_1037_Sunday, Nonsense}
                      \cup UNION {Range(short_trip_ids(t)) :
                                     t \in {AFA19GEN_1037_Sunday,
                                            AFA19GEN_1038_Sunday,
                                            AFA19GEN_1039_Sunday}},
        start_date \in {"20200302", "20200306", "20200307", "20200308"}}

\* the import of trips.txt ends
Import ==
    /\ call.function = "import_generic"
    /\ call.result = None
    /\ call' = returned(import_generic(call.args[1]))
    /\ UNCHANGED <<parser, realtime_raw, log, scraper, process_vars>>

\* a trip descriptor is looked up in the imported tables
Resolve(trip_descriptor) ==
    /\ call.function = "import_generic"
    /\ call.result # None
    /\ ~raises(Get(call.result))
    /\ call' = [function |-> "get_trip_row_from_descriptor",
                args     |-> <<Get(call.result), trip_descriptor>>,
                result   |-> Some(get_trip_row_from_descriptor_in(
                                      Get(call.result), trip_descriptor))]
    /\ UNCHANGED <<parser, realtime_raw, log, scraper, process_vars>>

ScheduleInit ==
    /\ realtime_raw = {}
    /\ self = [cls |-> "MTARealtimeProcessor", from_time |-> None]
    /\ NotRunning
    /\ call \in {calling("import_generic", <<trips_txt>>) :
                    trips_txt \in TripsTxts}

ScheduleNext == Import \/ \E td \in ScheduleDescriptors : Resolve(td)

ScheduleSpec == ScheduleInit /\ [][ScheduleNext]_vars

\* the days of the week of a service day, Monday being 0
DaysOf(service_day) ==
    IF service_day = WEEKDAY THEN 0..4
    ELSE IF service_day = SATURDAY THEN {5} ELSE {6}

\* the trip ids that the schedule maps the short id `key` to on the service
\* day
MappedTo(schedule, key, service_day) ==
    {r.trip_id.v : r \in {q \in schedule.mta_trip_id :
                             /\ q.alternate_trip_id.v = key
                             /\ q.service_day.v = service_day}}

\* the descriptor's id is a short id of the trip, its date is on a day of
\* the trip's service day, and the schedule maps the short id to no other
\* trip on that service day
ResolvesTo(schedule, trip_descriptor, trip_id) ==
    /\ ~raises(parse_trip_id(trip_id))
    /\ trip_descriptor.trip_id \in Range(short_trip_ids(trip_id))
    /\ weekday(trip_descriptor.start_date)
           \in DaysOf(parse_trip_id(trip_id).service_day)
    /\ MappedTo(schedule, trip_descriptor.trip_id,
                parse_trip_id(trip_id).service_day) \subseteq {trip_id}

\* C39: for a trip of the imported schedule whose id is of the grammar, a
\* descriptor whose id is one of the trip's two short ids, which the import
\* has stored, and whose date is on a day of the trip's service day resolves
\* to the trips row of that trip whenever the schedule maps the short id to
\* no other trip on that service day.
C39_ShortKeysResolve ==
    call.function = "get_trip_row_from_descriptor" =>
        \A trip \in call.args[1].trips :
            ResolvesTo(call.args[1], call.args[2], trip.trip_id.v) =>
                /\ Get(call.result) = Some(trip)
                /\ Cardinality(Range(short_trip_ids(trip.trip_id.v))) = 2
                /\ \A key \in Range(short_trip_ids(trip.trip_id.v)) :
                      trip.trip_id.v
                          \in MappedTo(call.args[1], key,
                                       parse_trip_id(trip.trip_id.v).service_day)

\* the second short id of the Sunday trip 1037, which the Saturday trip 1037
\* shares, was looked up on a Sunday and gave the Sunday trip
C39_Witness ==
    /\ call.function = "get_trip_row_from_descriptor"
    /\ call.args[2].trip_id = short_trip_ids(AFA19GEN_1037_Sunday)[2]
    /\ weekday(call.args[2].start_date) = 6
    /\ {r.trip_id.v : r \in call.args[1].trips}
           = {AFA19GEN_1037_Sunday, AFA19GEN_1037_Saturday}
    /\ Get(call.result) # None
    /\ Get(Get(call.result)).trip_id.v = AFA19GEN_1037_Sunday

\* the first short id of a weekday trip was looked up on a Friday and gave
\* the trip
FirstKeyOnFriday ==
    /\ call.function = "get_trip_row_from_descriptor"
    /\ call.args[2].trip_id = short_trip_ids(AFA19GEN_1037_Weekday)[1]
    /\ weekday(call.args[2].start_date) = 4
    /\ Get(call.result) # None
    /\ Get(Get(call.result)).trip_id.v = AFA19GEN_1037_Weekday

\* the second short id of the trip without path identifier, which is its
\* origin time and an underscore, was looked up and gave the trip
KeyWithoutTripPath ==
    /\ call.function = "get_trip_row_from_descriptor"
    /\ call.args[2].trip_id = <<"0", "1", "0", "6", "0", "0", "_">>
    /\ Get(call.result) # None
    /\ Get(Get(call.result)).trip_id.v = AFA19GEN_1039_Sunday

\* a short id that two trips of the service day share gave no trip
SharedKeyGivesNone ==
    /\ call.function = "get_trip_row_from_descriptor"
    /\ Cardinality(MappedTo(call.args[1], call.args[2].trip_id, SUNDAY)) = 2
    /\ weekday(call.args[2].start_date) = 6
    /\ Get(call.result) = None

\* a trips.txt with an id that is not of the grammar: the import raised
ImportRaised ==
    /\ call.function = "import_generic"
    /\ call.result # None
    /\ raises(Get(call.result))


-----------------------------------------------------------------------------
(* The cursor a run starts after *)

\* the run failed before its query was executed
FailedAtStartup == pc = "failed" /\ rows = <<>>

\* the rows of the job of the run in the table as the run found it
RowsAtStartup ==
    {i \in 1..Len(AtStartup) :
        /\ args.job_name # None
        /\ Get(args.job_name) # ""
        /\ AtStartup[i].job_name = Get(args.job_name)}

\* the text of the latest of them
PersistedText ==
    AtStartup[CHOOSE i \in RowsAtStartup :
                 \A j \in RowsAtStartup : AtStartup[j].time <= AtStartup[i].time
             ].checkpoint

\* the run has executed the query of the rows after the cursor of the text
StartsAfter(text) ==
    /\ ~FailedAtStartup
    /\ query = get_query(self, realtime_raw,
                         Some(loads(CheckpointCls(self.cls), text)), args.limit)

\* the run has executed the query of all rows
StartsAtBeginning ==
    /\ ~FailedAtStartup
    /\ query = get_query(self, realtime_raw, None, args.limit)
    /\ Range(query) = realtime_raw

\* C40: a run that was given a --checkpoint starts after it, whatever the
\* table holds for its job; a run without one and with a job name starts
\* after the latest persisted checkpoint of the job; a run with neither
\* starts at the beginning of the table; and no step of a run without a job
\* name changes the batch_checkpoints table.
C40_StartingCursorPrecedence ==
    /\ [](pc # "idle" =>
            /\ (given(args.checkpoint)
                    /\ ~Unreadable(self.cls, Get(args.checkpoint)))
                  => StartsAfter(Get(args.checkpoint))
            /\ (~given(args.checkpoint) /\ RowsAtStartup # {}
                    /\ ~Unreadable(self.cls, PersistedText))
                  => StartsAfter(PersistedText)
            /\ (~given(args.checkpoint) /\ RowsAtStartup = {})
                  => StartsAtBeginning)
    /\ [][(pc' # "idle" /\ ~given(args'.job_name))
              => batch_checkpoints' = batch_checkpoints]_vars

\* a run of the job, whose persisted checkpoint is the last row of the
\* table, was given the checkpoint of the first row: it has processed the
\* last row and has written its checkpoint
C40_Witness ==
    /\ pc = "done"
    /\ args.job_name = Some("job")
    /\ args.checkpoint
           = Some(dumps(CheckpointCls(self.cls),
                        [update_time |-> 1, feed_id |-> "1"]))
    /\ RowsAtStartup # {}
    /\ PersistedText = dumps(CheckpointCls(self.cls),
                             [update_time |-> MaxTime, feed_id |-> "1"])
    /\ Len(query) = MaxTime - 1
    /\ written = 1

\* a run was given a checkpoint while the persisted one of its job cannot
\* be read, and is done
SuppliedOverUnreadable ==
    /\ pc = "done"
    /\ given(args.checkpoint)
    /\ RowsAtStartup # {}
    /\ Unreadable(self.cls, PersistedText)

\* a run without --checkpoint has resumed after the persisted checkpoint of
\* its job
ResumedAfterPersisted ==
    /\ pc = "done"
    /\ ~given(args.checkpoint)
    /\ RowsAtStartup # {}
    /\ Len(query) = MaxTime - 1

\* a run of a job without persisted checkpoint has processed every row
NamedFromBeginning ==
    /\ pc = "done"
    /\ args.checkpoint = None
    /\ args.job_name = Some("job")
    /\ RowsAtStartup = {}
    /\ Len(query) = MaxTime
    /\ written > 0

\* a run without a job name has processed every row over a table that holds
\* a checkpoint
UnnamedOverPersisted ==
    /\ pc = "done"
    /\ args.job_name = None
    /\ Len(batch_checkpoints) = 1
    /\ done = realtime_raw

\* a run whose job name is the empty text has processed every row and has
\* written no checkpoint
EmptyJobName ==
    /\ pc = "done"
    /\ args.job_name = Some("")
    /\ done = realtime_raw
    /\ written = 0

=============================================================================
